---- MODULE Spec2Model ----
(***************************************************************************)
(* Model of the Hysilens violin player (src/app.js): the Standard MIDI     *)
(* File parser (parseMidiBytes and its helpers), the loader that installs  *)
(* its result (parseMidiFile / loadFallbackScale), the note sequencer and  *)
(* the playback controls around it.                                        *)
(*                                                                         *)
(* Byte buffers are sequences of 0..255; JavaScript offset o is TLA+ index *)
(* o + 1.  JavaScript numbers that can leave the integers (a note's        *)
(* duration) are records, see JsNum.                                       *)
(***************************************************************************)
EXTENDS Integers, Sequences, FiniteSets, TLC

VARIABLES
    \* ---- parser harness: the buffer handed to parseMidiBytes ----
    file,          \* the well-formed file the buffer was derived from
    bytes,         \* the Uint8Array passed to parseMidiBytes
    parsePc,       \* "input" before the call, "done" after it returned;
                   \* "tracks" and "events" while a call is followed step by step
    parseResult,   \* [raised, notes]: how the call ended
    parseCursor    \* the locals of a call followed step by step

VARIABLES
    \* ---- fields of the application object (constructor, lines 5-94) ----
    imuData,                 \* the last sample decoded: [ax, ay, az, gx, gy, gz]
    playbackMode,            \* "MP3" or "MIDI"
    isImuPlaying,
    isTestPlaying,
    midiNotes,               \* sequence of [pitch, velocity, duration]
    currentNoteIndex,
    isPlayingMidiSequence,
    violinSampleBuffer,      \* TRUE once violin_a4.wav is decoded
    currentMidiSource,       \* 0 is null, otherwise the audio node's id
    noteStopTimeout,         \* 0 is null, otherwise a timer handle
    motionHistory,
    motionSpeed,
    lastBowDirection,
    bowDirection,
    directionChanges,        \* times the direction-change badge was shown
    currentVolume,
    smoothedVolume,
    volumeHistory,
    isFading,
    fadeStartTime,
    fadeStartVolume,
    fadeTargetVolume,
    currentFadeDirection,
    fadeInDuration,          \* ms, written by the fade-in slider
    fadeOutDuration,         \* ms, written by the fade-out slider
    characteristic,          \* TRUE once a Bluetooth characteristic is selected
    idleMode,                \* the Arduino LED animation is on
    idleTransitionTimeout,   \* TRUE while the 5 s timer of the transition is live
    \* ---- the platform the handlers act on ----
    voices,                  \* ids of the audio nodes started and not stopped
    selfEnding,              \* the voices the audio engine ends by itself
    timers,                  \* live note-stop timers (handle = node id)
    sleepers,                \* sequencer loops suspended in sleep(), per kind
    parses,                  \* suspended parseMidiFile invocations
    parseCount,              \* parseMidiFile invocations so far
    trackLoads,              \* loadTrack invocations suspended at the cache
    arduinoFades,            \* handlers suspended in fadeArduinoVolumeToZero, per kind
    countdowns,              \* restartWithDelay invocations in their countdown
    audioSrc,                \* TRUE once audioElement.src is set
    audioPaused,             \* audioElement.paused
    now                      \* Date.now(), in ms

VARIABLES
    \* ---- gain harness: one evaluation of the motion-to-gain mapping ----
    gainInput,     \* [lo, hi, threshold, maxGain]: two motion speeds, lo <= hi
    gainOutput,    \* what the mapping gives for lo and for hi, once done
    \* ---- fade harness: direct calls of the fade engine ----
    tripPhase,     \* "idle", "up" while the target is V, "down" while it is 0,
                   \* "free" while the calls take any volume
    tripPeak,      \* the largest target requested so far
    tripCalls,     \* calls of smoothSetAudioVolume in the current phase
    \* ---- line harness: the text handed to processData ----
    linesRead,     \* the lines read so far, each a sequence of fields
    axRead,        \* the accelerations handed to detectBowDirection, in tenths
    \* ---- sequencer harness: the reads of the note list ----
    notesRead      \* per read of midiNotes[currentNoteIndex]: [index, length,
                   \* resumed], resumed when the loop read after a sleep

midiVars == <<file, bytes, parsePc, parseResult, parseCursor>>

gainVars == <<gainInput, gainOutput>>

tripVars == <<tripPhase, tripPeak, tripCalls>>

lineVars == <<linesRead, axRead, notesRead>>

appVars ==
    <<imuData, playbackMode, isImuPlaying, isTestPlaying, midiNotes, currentNoteIndex,
      isPlayingMidiSequence, violinSampleBuffer, currentMidiSource,
      noteStopTimeout, motionHistory, motionSpeed, lastBowDirection,
      bowDirection, directionChanges, currentVolume, smoothedVolume, volumeHistory, isFading,
      fadeStartTime, fadeStartVolume, fadeTargetVolume, currentFadeDirection,
      fadeInDuration, fadeOutDuration, characteristic, idleMode,
      idleTransitionTimeout,
      voices, selfEnding, timers, sleepers, parses, parseCount, trackLoads,
      arduinoFades, countdowns,
      audioSrc, audioPaused, now>>

vars == <<midiVars, gainVars, tripVars, lineVars, appVars>>

----------------------------------------------------------------------------
(* JavaScript numbers.                                                     *)

\* A finite integer value, +Infinity, or NaN.
JsNum(n) == [cls |-> "finite", val |-> n]
JsInfinity == [cls |-> "Infinity", val |-> 0]
JsNaN == [cls |-> "NaN", val |-> 0]

\* 2^n.
RECURSIVE Pow2(_)
Pow2(n) == IF n = 0 THEN 1 ELSE 2 * Pow2(n - 1)

\* Number of bits of a natural number below 2^30 (0 has none).
BitLength(n) == IF n = 0 THEN 0 ELSE (CHOOSE k \in 1..30 : Pow2(k - 1) <= n /\ n < Pow2(k))

\* Bits of a natural number, most significant first (no leading zero).
Bits(n) == [i \in 1..BitLength(n) |-> (n \div Pow2(BitLength(n) - i)) % 2]

\* Value of a bit string, most significant first.
RECURSIVE BitsToInt(_)
BitsToInt(s) ==
    IF Len(s) = 0 THEN 0
    ELSE IF Len(s) = 1 THEN s[1]
    ELSE LET h == Len(s) \div 2
         IN  BitsToInt(SubSeq(s, 1, h)) * Pow2(Len(s) - h)
             + BitsToInt(SubSeq(s, h + 1, Len(s)))

Zeros(n) == [i \in 1..n |-> 0]

StripZeros(s) ==
    IF \A i \in 1..Len(s) : s[i] = 0 THEN <<>>
    ELSE SubSeq(s, CHOOSE i \in 1..Len(s) : s[i] = 1 /\ \A j \in 1..(i - 1) : s[j] = 0,
                Len(s))

\* s + 1 on a bit string that is not all ones.
BitsInc(s) ==
    LET z == CHOOSE i \in 1..Len(s) : s[i] = 0 /\ \A j \in (i + 1)..Len(s) : s[j] = 1
    IN  [i \in 1..Len(s) |-> IF i < z THEN s[i] ELSE IF i = z THEN 1 ELSE 0]

\* Significand width of an IEEE-754 binary64.
MantissaBits == 53

\* The double zero.
DblZero == [m |-> <<>>, e |-> 0]

\* Round-to-nearest-even of the real number int(stream) * 2^exp (+ a non-zero
\* tail below the last bit when sticky) to a double [m, e]: m holds exactly
\* MantissaBits bits with m[1] = 1 and the value is int(m) * 2^e.
RoundToDouble(stream, sticky, exp) ==
    LET s == StripZeros(stream)
        n == Len(s)
    IN  IF n = 0 THEN DblZero
        ELSE IF n <= MantissaBits
        THEN [m |-> s \o Zeros(MantissaBits - n), e |-> exp - (MantissaBits - n)]
        ELSE LET keep == SubSeq(s, 1, MantissaBits)
                 guard == s[MantissaBits + 1]
                 tail == sticky \/ \E i \in (MantissaBits + 2)..n : s[i] = 1
                 up == guard = 1 /\ (tail \/ keep[MantissaBits] = 1)
                 e2 == exp + (n - MantissaBits)
             IN  IF ~up THEN [m |-> keep, e |-> e2]
                 ELSE IF \A i \in 1..MantissaBits : keep[i] = 1
                 THEN [m |-> <<1>> \o Zeros(MantissaBits - 1), e |-> e2 + 1]
                 ELSE [m |-> BitsInc(keep), e |-> e2]

\* A bit string cut into limbs of w bits each (zero-padded on the left), and
\* back: arithmetic on limbs keeps every intermediate value below 2^31.
ToLimbs(s, w) ==
    LET pad == (w - (Len(s) % w)) % w
        p == Zeros(pad) \o s
    IN  [i \in 1..(Len(p) \div w) |-> BitsToInt(SubSeq(p, (i - 1) * w + 1, i * w))]

FromLimbs(limbs, w) ==
    [j \in 1..(Len(limbs) * w) |->
        (limbs[((j - 1) \div w) + 1] \div Pow2(w - 1 - ((j - 1) % w))) % 2]

\* Limb widths: a remainder below 2^16 times 2^15 and a limb below 2^7
\* times a 24-bit factor both stay below 2^31.
DivLimbBits == 15
MulLimbBits == 7

RECURSIVE LimbDiv(_, _, _, _, _)
LimbDiv(limbs, d, i, rem0, acc) ==
    IF i > Len(limbs) THEN [q |-> acc, r |-> rem0]
    ELSE LET x == rem0 * Pow2(DivLimbBits) + limbs[i]
         IN  LimbDiv(limbs, d, i + 1, x % d, Append(acc, x \div d))

\* Long division of a bit string by a positive integer d < 2^16:
\* quotient bits (leading zeros allowed) and remainder.
LongDiv(s, d) ==
    LET res == LimbDiv(ToLimbs(s, DivLimbBits), d, 1, 0, <<>>)
    IN  [q |-> FromLimbs(res.q, DivLimbBits), r |-> res.r]

RECURSIVE LimbMul(_, _, _, _, _)
LimbMul(limbs, k, i, carry0, acc) ==
    IF i = 0 THEN [out |-> acc, c |-> carry0]
    ELSE LET x == limbs[i] * k + carry0
         IN  LimbMul(limbs, k, i - 1, x \div Pow2(MulLimbBits),
                     <<x % Pow2(MulLimbBits)>> \o acc)

\* Product of a bit string and a natural number k < 2^24, exact.
MulSmall(s, k) ==
    LET limbs == ToLimbs(s, MulLimbBits)
        res == LimbMul(limbs, k, Len(limbs), 0, <<>>)
    IN  Bits(res.c) \o FromLimbs(res.out, MulLimbBits)

\* Fraction bits produced before rounding a quotient: enough that the
\* quotient always carries more than MantissaBits + 1 significant bits.
DivGuardBits(d) == MantissaBits + 2 + Len(Bits(d))

\* a / b for naturals a, b > 0, as the double the division yields.
DblDivInt(a, b) ==
    LET F == DivGuardBits(b)
        qr == LongDiv(Bits(a) \o Zeros(F), b)
    IN  IF a = 0 THEN DblZero ELSE RoundToDouble(qr.q, qr.r # 0, -F)

\* x * k for a double x and a natural k.
DblMulInt(x, k) ==
    IF x.m = <<>> \/ k = 0 THEN DblZero
    ELSE RoundToDouble(MulSmall(x.m, k), FALSE, x.e)

\* x / k for a double x and a natural k > 0.
DblDivSmall(x, k) ==
    LET F == DivGuardBits(k)
        qr == LongDiv(x.m \o Zeros(F), k)
    IN  IF x.m = <<>> THEN DblZero ELSE RoundToDouble(qr.q, qr.r # 0, x.e - F)

\* Math.floor of a non-negative double, as an integer.
DblFloor(x) ==
    IF x.m = <<>> THEN 0
    ELSE IF x.e >= 0 THEN BitsToInt(x.m \o Zeros(x.e))
    ELSE IF Len(x.m) + x.e <= 0 THEN 0
    ELSE BitsToInt(SubSeq(x.m, 1, Len(x.m) + x.e))

\* Math.max(milliseconds, 100) on a finite value.
MinimumDuration == 100

\* ticksToMilliseconds(ticks, ticksPerQuarter, microsecondsPerQuarter):
\*   quarters = ticks / ticksPerQuarter           (0/0 is NaN, t/0 Infinity)
\*   microseconds = quarters * microsecondsPerQuarter   (Infinity * 0 is NaN)
\*   Math.max(Math.floor(microseconds / 1000), 100)     (NaN stays NaN)
ticksToMilliseconds(ticks, ticksPerQuarter, microsecondsPerQuarter) ==
    IF ticksPerQuarter = 0
    THEN IF ticks = 0 \/ microsecondsPerQuarter = 0 THEN JsNaN ELSE JsInfinity
    ELSE LET quarters == DblDivInt(ticks, ticksPerQuarter)
             microseconds == DblMulInt(quarters, microsecondsPerQuarter)
             milliseconds == DblFloor(DblDivSmall(microseconds, 1000))
         IN  JsNum(IF milliseconds > MinimumDuration THEN milliseconds
                   ELSE MinimumDuration)

----------------------------------------------------------------------------
(* The MIDI byte parser.                                                   *)

\* bytes[offset] of the Uint8Array.
At(buf, offset) == buf[offset + 1]

\* readInt16: (bytes[offset] << 8) | bytes[offset + 1], never negative.
readInt16(buf, offset) == At(buf, offset) * 256 + At(buf, offset + 1)

\* readInt32: the four bytes ORed after 32-bit shifts, so a first byte with
\* its high bit set makes the result negative (two's complement).
readInt32(buf, offset) ==
    LET b0 == At(buf, offset)
        hi == IF b0 >= 128 THEN b0 - 256 ELSE b0
    IN  hi * 16777216 + At(buf, offset + 1) * 65536
        + At(buf, offset + 2) * 256 + At(buf, offset + 3)

\* The do-while of readVariableLength from currentOffset on.
RECURSIVE VariableLengthLoop(_, _, _, _)
VariableLengthLoop(buf, currentOffset, value, bytesRead) ==
    IF currentOffset >= Len(buf) THEN [value |-> value, bytesRead |-> bytesRead]
    ELSE LET byte == At(buf, currentOffset)
             value2 == value * 128 + (byte % 128)
             read2 == bytesRead + 1
         IN  IF byte >= 128 /\ read2 < 4
             THEN VariableLengthLoop(buf, currentOffset + 1, value2, read2)
             ELSE [value |-> value2, bytesRead |-> read2]

\* readVariableLength: up to four 7-bit groups; {0, 0} at or past the end.
readVariableLength(buf, offset) ==
    IF offset >= Len(buf) THEN [value |-> 0, bytesRead |-> 0]
    ELSE VariableLengthLoop(buf, offset, 0, 0)

\* Safety limit of the event loop.
maxLoops == 100000

\* Tempo of a track before any Set Tempo event (microseconds per quarter).
defaultTempo == 500000

\* activeNotes.set(pitch, {velocity, tick})
ActiveSet(activeNotes, pitch, velocity, tick) ==
    [p \in (DOMAIN activeNotes) \cup {pitch} |->
        IF p = pitch THEN [velocity |-> velocity, tick |-> tick]
        ELSE activeNotes[p]]

\* activeNotes.delete(pitch)
ActiveDelete(activeNotes, pitch) ==
    [p \in (DOMAIN activeNotes) \ {pitch} |-> activeNotes[p]]

\* The closing branch shared by Note Off and Note On with velocity 0: emit
\* the open note of this pitch, if any, and forget it.
CloseNote(ctx, pitch, ticksPerQuarter) ==
    IF pitch \in DOMAIN ctx.activeNotes
    THEN LET noteInfo == ctx.activeNotes[pitch]
             durationTicks == ctx.currentTick - noteInfo.tick
             durationMs == ticksToMilliseconds(durationTicks, ticksPerQuarter,
                                               ctx.currentTempo)
         IN  [ctx EXCEPT
                !.notes = Append(@, [pitch |-> pitch, velocity |-> noteInfo.velocity,
                                     duration |-> durationMs]),
                !.activeNotes = ActiveDelete(@, pitch)]
    ELSE ctx

\* case 0x80: Note Off.
NoteOffEvent(buf, ctx, ticksPerQuarter) ==
    IF ctx.offset + 2 <= Len(buf)
    THEN CloseNote([ctx EXCEPT !.offset = @ + 2], At(buf, ctx.offset), ticksPerQuarter)
    ELSE [ctx EXCEPT !.offset = Len(buf)]

\* NoteOnEvent leaving an open note of the pitch as it is.
NoteOnEventKeepsFirst(buf, ctx, ticksPerQuarter) ==
    IF ctx.offset + 2 <= Len(buf)
    THEN LET pitch == At(buf, ctx.offset)
             velocity == At(buf, ctx.offset + 1)
             moved == [ctx EXCEPT !.offset = @ + 2]
         IN  IF velocity > 0
             THEN IF pitch \in DOMAIN ctx.activeNotes THEN moved
                  ELSE [moved EXCEPT
                          !.activeNotes = ActiveSet(@, pitch, velocity, ctx.currentTick)]
             ELSE CloseNote(moved, pitch, ticksPerQuarter)
    ELSE [ctx EXCEPT !.offset = Len(buf)]

\* case 0x90: Note On.
NoteOnEvent(buf, ctx, ticksPerQuarter) ==
    IF ctx.offset + 2 <= Len(buf)
    THEN LET pitch == At(buf, ctx.offset)
             velocity == At(buf, ctx.offset + 1)
             moved == [ctx EXCEPT !.offset = @ + 2]
         IN  IF velocity > 0
             THEN [moved EXCEPT
                     !.activeNotes = ActiveSet(@, pitch, velocity, ctx.currentTick)]
             ELSE CloseNote(moved, pitch, ticksPerQuarter)
    ELSE [ctx EXCEPT !.offset = Len(buf)]

\* cases 0xA0, 0xB0, 0xE0 (two data bytes) and 0xC0, 0xD0 (one).
SkipData(buf, ctx, n) ==
    IF ctx.offset + n <= Len(buf)
    THEN [ctx EXCEPT !.offset = @ + n]
    ELSE [ctx EXCEPT !.offset = Len(buf)]

\* MetaEvent skipping a Set Tempo event like any other meta event.
MetaEventSkipsTempo(buf, ctx) ==
    IF ctx.offset < Len(buf)
    THEN LET lengthResult == readVariableLength(buf, ctx.offset + 1)
         IN  [ctx EXCEPT !.offset = ctx.offset + 1 + lengthResult.bytesRead
                                    + lengthResult.value]
    ELSE ctx

\* case 0xF0 with status 0xFF: meta event.
MetaEvent(buf, ctx) ==
    IF ctx.offset < Len(buf)
    THEN LET metaType == At(buf, ctx.offset)
             lengthResult == readVariableLength(buf, ctx.offset + 1)
             length == lengthResult.value
             dataOffset == ctx.offset + 1 + lengthResult.bytesRead
             isTempo == metaType = 81 /\ length >= 3 /\ dataOffset + 3 <= Len(buf)
         IN  [ctx EXCEPT
                !.currentTempo =
                    IF isTempo
                    THEN At(buf, dataOffset) * 65536 + At(buf, dataOffset + 1) * 256
                         + At(buf, dataOffset + 2)
                    ELSE @,
                !.offset = dataOffset + length]
    ELSE ctx

\* case 0xF0 with status 0xF0 or 0xF7: SysEx.
SysExEvent(buf, ctx) ==
    LET lengthResult == readVariableLength(buf, ctx.offset)
    IN  [ctx EXCEPT !.offset = @ + lengthResult.bytesRead + lengthResult.value]

\* The switch on statusType.
DispatchEvent(buf, ctx, status, ticksPerQuarter) ==
    LET statusType == status - (status % 16)
    IN  CASE statusType = 128 -> NoteOffEvent(buf, ctx, ticksPerQuarter)
          [] statusType = 144 -> NoteOnEvent(buf, ctx, ticksPerQuarter)
          [] statusType \in {160, 176, 224} -> SkipData(buf, ctx, 2)
          [] statusType \in {192, 208} -> SkipData(buf, ctx, 1)
          [] statusType = 240 ->
                IF status = 255 THEN MetaEvent(buf, ctx)
                ELSE IF status \in {240, 247} THEN SysExEvent(buf, ctx)
                ELSE [ctx EXCEPT !.offset = @ + 1]
          [] OTHER -> [ctx EXCEPT !.offset = @ + 1]

\* A break that leaves the event loop running: a deliberately wrong variant.
BreakGoesOn(ctx) == ctx

\* A break out of the event loop.
Break(ctx) == [ctx EXCEPT !.running = FALSE]

\* "Safety check: ensure offset advanced".
EnsureAdvanced(ctx, startOffset) ==
    IF ctx.offset = startOffset THEN [ctx EXCEPT !.offset = @ + 1] ELSE ctx

\* TrackIteration without the limit on the number of iterations.
TrackIterationUncapped(buf, endOffset, ticksPerQuarter, ctx) ==
    LET counted == [ctx EXCEPT !.loopCount = @ + 1]
        deltaTimeResult == readVariableLength(buf, ctx.offset)
        afterDelta == [counted EXCEPT
                          !.offset = @ + deltaTimeResult.bytesRead,
                          !.currentTick = @ + deltaTimeResult.value]
        byte == At(buf, afterDelta.offset)
        isRunning == byte < 128
        status == IF isRunning THEN ctx.runningStatus ELSE byte
        afterStatus == IF isRunning THEN afterDelta
                       ELSE [afterDelta EXCEPT !.offset = @ + 1,
                                               !.runningStatus = byte]
    IN  IF deltaTimeResult.bytesRead = 0 THEN Break(counted)
        ELSE IF afterDelta.offset >= Len(buf) \/ afterDelta.offset >= endOffset
        THEN Break(afterDelta)
        ELSE IF isRunning /\ status = 0 THEN Break(afterDelta)
        ELSE IF afterStatus.offset >= Len(buf) \/ afterStatus.offset >= endOffset
        THEN Break(afterStatus)
        ELSE EnsureAdvanced(DispatchEvent(buf, afterStatus, status, ticksPerQuarter),
                            ctx.offset)

\* TrackIteration stepping over the byte in status position even when it is
\* a data byte.
TrackIterationSkipsDataByte(buf, endOffset, ticksPerQuarter, ctx) ==
    LET counted == [ctx EXCEPT !.loopCount = @ + 1]
        deltaTimeResult == readVariableLength(buf, ctx.offset)
        afterDelta == [counted EXCEPT
                          !.offset = @ + deltaTimeResult.bytesRead,
                          !.currentTick = @ + deltaTimeResult.value]
        byte == At(buf, afterDelta.offset)
        isRunning == byte < 128
        status == IF isRunning THEN ctx.runningStatus ELSE byte
        afterStatus == [afterDelta EXCEPT !.offset = @ + 1,
                                          !.runningStatus = status]
    IN  IF counted.loopCount > maxLoops THEN Break(counted)
        ELSE IF deltaTimeResult.bytesRead = 0 THEN Break(counted)
        ELSE IF afterDelta.offset >= Len(buf) \/ afterDelta.offset >= endOffset
        THEN Break(afterDelta)
        ELSE IF isRunning /\ status = 0 THEN Break(afterDelta)
        ELSE IF afterStatus.offset >= Len(buf) \/ afterStatus.offset >= endOffset
        THEN Break(afterStatus)
        ELSE EnsureAdvanced(DispatchEvent(buf, afterStatus, status, ticksPerQuarter),
                            ctx.offset)

\* One iteration of the while loop of parseTrackEvents, entered with the
\* loop condition true.
TrackIteration(buf, endOffset, ticksPerQuarter, ctx) ==
    LET counted == [ctx EXCEPT !.loopCount = @ + 1]
        deltaTimeResult == readVariableLength(buf, ctx.offset)
        afterDelta == [counted EXCEPT
                          !.offset = @ + deltaTimeResult.bytesRead,
                          !.currentTick = @ + deltaTimeResult.value]
        byte == At(buf, afterDelta.offset)
        isRunning == byte < 128
        status == IF isRunning THEN ctx.runningStatus ELSE byte
        afterStatus == IF isRunning THEN afterDelta
                       ELSE [afterDelta EXCEPT !.offset = @ + 1,
                                               !.runningStatus = byte]
    IN  IF counted.loopCount > maxLoops THEN Break(counted)
        ELSE IF deltaTimeResult.bytesRead = 0 THEN Break(counted)
        ELSE IF afterDelta.offset >= Len(buf) \/ afterDelta.offset >= endOffset
        THEN Break(afterDelta)
        ELSE IF isRunning /\ status = 0 THEN Break(afterDelta)
        ELSE IF afterStatus.offset >= Len(buf) \/ afterStatus.offset >= endOffset
        THEN Break(afterStatus)
        ELSE EnsureAdvanced(DispatchEvent(buf, afterStatus, status, ticksPerQuarter),
                            ctx.offset)

\* The while loop of parseTrackEvents.
RECURSIVE TrackLoop(_, _, _, _)
TrackLoop(buf, endOffset, ticksPerQuarter, ctx) ==
    IF ctx.running /\ ctx.offset < endOffset /\ ctx.offset < Len(buf)
    THEN TrackLoop(buf, endOffset, ticksPerQuarter,
                   TrackIteration(buf, endOffset, ticksPerQuarter, ctx))
    ELSE ctx

\* The per-track parse state at the top of parseTrackEvents.
TrackStart(startOffset, baseTempo) ==
    [offset |-> startOffset, currentTick |-> 0, currentTempo |-> baseTempo,
     runningStatus |-> 0, loopCount |-> 0, activeNotes |-> <<>>,
     notes |-> <<>>, running |-> TRUE]

\* parseTrackEvents: the notes of one track.
parseTrackEvents(buf, startOffset, endOffset, ticksPerQuarter, baseTempo) ==
    TrackLoop(buf, endOffset, ticksPerQuarter, TrackStart(startOffset, baseTempo)).notes

\* Bytes 0..3 are 'MThd'.
HasHeaderMagic(buf) ==
    At(buf, 0) = 77 /\ At(buf, 1) = 84 /\ At(buf, 2) = 104 /\ At(buf, 3) = 100

\* Bytes offset..offset+3 are 'MTrk'.
HasTrackMagic(buf, offset) ==
    /\ offset >= 0
    /\ At(buf, offset) = 77 /\ At(buf, offset + 1) = 84
    /\ At(buf, offset + 2) = 114 /\ At(buf, offset + 3) = 107

\* Largest accepted track count.
MaxTrackCount == 1000

\* HeaderRejected without the cap on the declared track count.
HeaderRejectedNoCap(buf) ==
    \/ Len(buf) < 14
    \/ ~HasHeaderMagic(buf)

\* The header is rejected: too short, wrong magic or too many tracks.
HeaderRejected(buf) ==
    \/ Len(buf) < 14
    \/ ~HasHeaderMagic(buf)
    \/ readInt16(buf, 10) < 0
    \/ readInt16(buf, 10) > MaxTrackCount

\* PushNotes keeping only the notes of the latest track.
PushNotesOverwrite(notes, trackNotes) == trackNotes

\* notes.push(...trackNotes)
PushNotes(notes, trackNotes) == notes \o trackNotes

\* The for loop over the tracks in parseMidiBytes.
RECURSIVE TracksLoop(_, _, _, _, _, _)
TracksLoop(buf, trackNum, trackCount, offset, ticksPerQuarter, notes) ==
    IF trackNum >= trackCount THEN notes
    ELSE IF offset + 8 > Len(buf) THEN notes
    ELSE IF ~HasTrackMagic(buf, offset) THEN notes
    ELSE LET trackLength == readInt32(buf, offset + 4)
             trackEnd == offset + 8 + trackLength
         IN  IF trackEnd > Len(buf) THEN notes
             ELSE TracksLoop(buf, trackNum + 1, trackCount, trackEnd, ticksPerQuarter,
                             PushNotes(notes,
                                       parseTrackEvents(buf, offset + 8, trackEnd,
                                                        ticksPerQuarter, defaultTempo)))

\* The values the variable offset of parseMidiBytes takes at the head of the
\* track loop and after each "offset = trackEnd", in order.
RECURSIVE TrackOffsets(_, _, _, _, _)
TrackOffsets(buf, trackNum, trackCount, offset, seen) ==
    IF trackNum >= trackCount THEN seen
    ELSE IF offset + 8 > Len(buf) THEN seen
    ELSE IF ~HasTrackMagic(buf, offset) THEN seen
    ELSE LET trackLength == readInt32(buf, offset + 4)
             trackEnd == offset + 8 + trackLength
         IN  IF trackEnd > Len(buf) THEN seen
             ELSE TrackOffsets(buf, trackNum + 1, trackCount, trackEnd,
                               Append(seen, trackEnd))

\* parseMidiBytes: [raised, notes].  Every statement that could throw sits
\* inside the try, whose catch returns the empty list.
parseMidiBytes(buf) ==
    IF HeaderRejected(buf) THEN [raised |-> FALSE, notes |-> <<>>]
    ELSE LET division == readInt16(buf, 12)
             ticksPerQuarter == IF division >= 0 THEN division ELSE 480
         IN  [raised |-> FALSE,
              notes |-> TracksLoop(buf, 0, readInt16(buf, 10), 14, ticksPerQuarter, <<>>)]

----------------------------------------------------------------------------
(* Inputs of the parser: well-formed Standard MIDI Files, described by     *)
(* their division and tracks of events, and the byte buffers derived from  *)
(* them by truncation or by overwriting one byte.                          *)

\* Most events per track of a generated file (End of Track not counted).
MaxEvents == 2

U16(n) == <<n \div 256, n % 256>>
U32(n) == <<0, 0>> \o U16(n)

\* A variable-length quantity below 2^14.
VLQ(n) == IF n < 128 THEN <<n>> ELSE <<128 + (n \div 128), n % 128>>

NoteOn(delta, pitch, velocity) ==
    [kind |-> "on", delta |-> delta, pitch |-> pitch, velocity |-> velocity, tempo |-> 0]
NoteOff(delta, pitch) ==
    [kind |-> "off", delta |-> delta, pitch |-> pitch, velocity |-> 64, tempo |-> 0]
SetTempo(delta, tempo) ==
    [kind |-> "tempo", delta |-> delta, pitch |-> 0, velocity |-> 0, tempo |-> tempo]

\* The events a generated track is made of.
EventMenu ==
    { NoteOn(0, 69, 80), NoteOff(240, 69), NoteOn(246, 69, 0), SetTempo(0, 600000) }

EventBytes(ev) ==
    VLQ(ev.delta) \o
    ( CASE ev.kind = "on" -> <<144, ev.pitch, ev.velocity>>
        [] ev.kind = "off" -> <<128, ev.pitch, ev.velocity>>
        [] ev.kind = "tempo" ->
              <<255, 81, 3, ev.tempo \div 65536, (ev.tempo \div 256) % 256,
                ev.tempo % 256>> )

EndOfTrackBytes == <<0, 255, 47, 0>>

RECURSIVE EventsBytes(_)
EventsBytes(events) ==
    IF events = <<>> THEN <<>> ELSE EventBytes(Head(events)) \o EventsBytes(Tail(events))

TrackBytes(events) ==
    LET body == EventsBytes(events) \o EndOfTrackBytes
    IN  <<77, 84, 114, 107>> \o U32(Len(body)) \o body

RECURSIVE TracksBytes(_)
TracksBytes(tracks) ==
    IF tracks = <<>> THEN <<>> ELSE TrackBytes(Head(tracks)) \o TracksBytes(Tail(tracks))

\* The bytes of a well-formed file: MThd, length 6, format, ntrks, division.
FileBytes(f) ==
    <<77, 84, 104, 100>> \o U32(6) \o U16(IF Len(f.tracks) > 1 THEN 1 ELSE 0)
    \o U16(Len(f.tracks)) \o U16(f.division) \o TracksBytes(f.tracks)

\* Division values of the generated files.
Divisions == {0, 120, 480}

\* Event lists of at most n events.
RECURSIVE EventLists(_)
EventLists(n) ==
    IF n = 0 THEN {<<>>}
    ELSE LET shorter == EventLists(n - 1)
         IN  shorter \cup {Append(l, ev) : l \in shorter, ev \in EventMenu}

\* A second track, when there is one, is drawn from this smaller set.
SecondTracks == {<<>>, <<NoteOn(0, 69, 80), NoteOff(240, 69)>>}

TrackLists ==
    {<<l>> : l \in EventLists(MaxEvents)}
    \cup {<<l, t>> : l \in EventLists(MaxEvents), t \in SecondTracks}

WellFormedFiles == [division : Divisions, tracks : TrackLists]

\* Values written over one byte of a file.
CorruptValues == {0, 200}

IsPrefix(p, full) == Len(p) <= Len(full) /\ p = SubSeq(full, 1, Len(p))

----------------------------------------------------------------------------
(* The player.  Its handlers are operators from a state record to a state  *)
(* record, named as the methods they model, so that a handler's calls      *)
(* compose; an action applies one handler to the current state.            *)
(*                                                                         *)
(* Volumes, speeds and progress values are fixed-point numbers: 1.0 is     *)
(* Unit.  Times are whole milliseconds.                                    *)

\* 1.0 in fixed point.
Unit == 10000

maxVolume == Unit
motionThreshold == (15 * Unit) \div 100
defaultFadeInDuration == 500
defaultFadeOutDuration == 30
volumeHistorySize == 5
maxHistorySize == 5
MAX_MOTION_SPEED == 250

\* Most audio nodes alive (sounding, or still referenced) at one time.
MaxVoices == 2
\* Most sequencer loops suspended in sleep() at one time.
MaxSleepers == 2
\* Most parseMidiFile invocations in a run of the sequencer.
MaxParses == 1
\* Most further parseMidiFile invocations in a run of the loader.
MaxReloads == 1
\* Most loadTrack invocations waiting for the cache at one time.
MaxTrackLoads == 1
\* Latest clock value, in ms.
MaxNow == 600
\* Most calls of smoothSetAudioVolume while a round trip holds its target up.
MaxUpCalls == 3
\* Most calls of smoothSetAudioVolume while a round trip holds its target at 0.
MaxDownCalls == 12
\* Most direct calls of setAudioVolume and smoothSetAudioVolume.
MaxVolumeCalls == 6
\* Most lines read when lines of any text are read.
MaxLines == 2
\* Most lines read when the lines are samples of a still, slow or fast bow.
MaxSamples == 7
\* Most accelerations handed to detectBowDirection on its own.
MaxBowSamples == 5

Min(a, b) == IF a < b THEN a ELSE b
Max(a, b) == IF a > b THEN a ELSE b
Abs(a) == IF a < 0 THEN -a ELSE a

RECURSIVE SeqSum(_)
SeqSum(s) == IF s = <<>> THEN 0 ELSE Head(s) + SeqSum(Tail(s))

\* Math.pow(x, n) for a fixed-point x in [0, 1] and a whole n.
RECURSIVE PowUnit(_, _)
PowUnit(x, n) == IF n = 0 THEN Unit ELSE (x * PowUnit(x, n - 1)) \div Unit

\* Math.sqrt(x*x + y*y + z*z) of whole numbers, rounded down.
Magnitude(x, y, z) ==
    LET n == x * x + y * y + z * z
    IN  CHOOSE r \in 0..(Abs(x) + Abs(y) + Abs(z)) :
            r * r <= n /\ n < (r + 1) * (r + 1)

\* The state the handlers read and write: every variable of the player, and
\* ok, which a handler clears when it would pass one of the model's bounds.
World ==
    [ imuData |-> imuData, playbackMode |-> playbackMode, isImuPlaying |-> isImuPlaying,
      isTestPlaying |-> isTestPlaying, midiNotes |-> midiNotes,
      currentNoteIndex |-> currentNoteIndex,
      isPlayingMidiSequence |-> isPlayingMidiSequence,
      violinSampleBuffer |-> violinSampleBuffer,
      currentMidiSource |-> currentMidiSource,
      noteStopTimeout |-> noteStopTimeout,
      motionHistory |-> motionHistory, motionSpeed |-> motionSpeed,
      lastBowDirection |-> lastBowDirection, bowDirection |-> bowDirection,
      directionChanges |-> directionChanges,
      currentVolume |-> currentVolume, smoothedVolume |-> smoothedVolume,
      volumeHistory |-> volumeHistory, isFading |-> isFading,
      fadeStartTime |-> fadeStartTime, fadeStartVolume |-> fadeStartVolume,
      fadeTargetVolume |-> fadeTargetVolume,
      currentFadeDirection |-> currentFadeDirection,
      fadeInDuration |-> fadeInDuration, fadeOutDuration |-> fadeOutDuration,
      characteristic |-> characteristic, idleMode |-> idleMode, idleTransitionTimeout |-> idleTransitionTimeout,
      arduinoFades |-> arduinoFades, countdowns |-> countdowns,
      voices |-> voices, selfEnding |-> selfEnding, timers |-> timers,
      sleepers |-> sleepers, parses |-> parses, parseCount |-> parseCount,
      trackLoads |-> trackLoads, audioSrc |-> audioSrc,
      audioPaused |-> audioPaused, now |-> now, ok |-> TRUE ]

\* The handler that returned st stayed within the bounds of the model.
WithinBounds(st) == st.ok

\* The fields after a handler returned st.
InstallFields(st) ==
    /\ imuData' = st.imuData
    /\ playbackMode' = st.playbackMode
    /\ isImuPlaying' = st.isImuPlaying
    /\ isTestPlaying' = st.isTestPlaying
    /\ midiNotes' = st.midiNotes
    /\ currentNoteIndex' = st.currentNoteIndex
    /\ isPlayingMidiSequence' = st.isPlayingMidiSequence
    /\ violinSampleBuffer' = st.violinSampleBuffer
    /\ currentMidiSource' = st.currentMidiSource
    /\ noteStopTimeout' = st.noteStopTimeout
    /\ motionHistory' = st.motionHistory
    /\ motionSpeed' = st.motionSpeed
    /\ lastBowDirection' = st.lastBowDirection
    /\ bowDirection' = st.bowDirection
    /\ directionChanges' = st.directionChanges
    /\ currentVolume' = st.currentVolume
    /\ smoothedVolume' = st.smoothedVolume
    /\ volumeHistory' = st.volumeHistory
    /\ isFading' = st.isFading
    /\ fadeStartTime' = st.fadeStartTime
    /\ fadeStartVolume' = st.fadeStartVolume
    /\ fadeTargetVolume' = st.fadeTargetVolume
    /\ currentFadeDirection' = st.currentFadeDirection
    /\ fadeInDuration' = st.fadeInDuration
    /\ characteristic' = st.characteristic
    /\ idleMode' = st.idleMode
    /\ idleTransitionTimeout' = st.idleTransitionTimeout
    /\ arduinoFades' = st.arduinoFades
    /\ countdowns' = st.countdowns
    /\ fadeOutDuration' = st.fadeOutDuration
    /\ voices' = st.voices
    /\ selfEnding' = st.selfEnding
    /\ timers' = st.timers
    /\ sleepers' = st.sleepers
    /\ parses' = st.parses
    /\ parseCount' = st.parseCount
    /\ trackLoads' = st.trackLoads
    /\ audioSrc' = st.audioSrc
    /\ audioPaused' = st.audioPaused
    /\ now' = st.now

\* The state after a handler returned st.
Install(st) == InstallFields(st) /\ UNCHANGED <<midiVars, gainVars, tripVars, lineVars>>

\* The state the constructor and init() leave (lines 5-94, 276).
Constructed ==
    /\ imuData = [ax |-> JsNum(0), ay |-> JsNum(0), az |-> JsNum(0),
                  gx |-> JsNum(0), gy |-> JsNum(0), gz |-> JsNum(0)]
    /\ playbackMode = "MP3"
    /\ isImuPlaying = FALSE
    /\ isTestPlaying = FALSE
    /\ midiNotes = <<>>
    /\ currentNoteIndex = 0
    /\ isPlayingMidiSequence = FALSE
    /\ violinSampleBuffer = FALSE
    /\ currentMidiSource = 0
    /\ noteStopTimeout = 0
    /\ motionHistory = <<>>
    /\ motionSpeed = 0
    /\ lastBowDirection = 0
    /\ bowDirection = "Unknown"
    /\ directionChanges = 0
    /\ currentVolume = 0
    /\ smoothedVolume = 0
    /\ volumeHistory = <<>>
    /\ isFading = FALSE
    /\ fadeStartTime = 0
    /\ fadeStartVolume = 0
    /\ fadeTargetVolume = 0
    /\ currentFadeDirection = "none"
    /\ fadeInDuration = defaultFadeInDuration
    /\ fadeOutDuration = defaultFadeOutDuration
    /\ characteristic = FALSE
    /\ idleMode = FALSE
    /\ idleTransitionTimeout = FALSE
    /\ arduinoFades = [plain |-> 0, ended |-> 0]
    /\ countdowns = 0
    /\ voices = {}
    /\ selfEnding = {}
    /\ timers = {}
    /\ sleepers = [continuous |-> 0, test |-> 0]
    /\ parses = {}
    /\ parseCount = 0
    /\ trackLoads = 0
    /\ audioSrc = FALSE
    /\ audioPaused = TRUE
    /\ now = 0

----------------------------------------------------------------------------
(* Volume of the audio element and the fade engine.                        *)

\* audioElement.pause(); load(); the position is restored.
forcePause(st) == [st EXCEPT !.audioPaused = TRUE]

\* audioElement.play()
play(st) == [st EXCEPT !.audioPaused = FALSE]

\* setAudioVolume without the clamp of line 549: a deliberately wrong variant.
setAudioVolumeUnclamped(st, volume) ==
    [st EXCEPT !.currentVolume = volume]

setAudioVolume(st, volume) ==
    [st EXCEPT !.currentVolume = Max(0, Min(Unit, volume))]

\* The eased progress of a fade (lines 672-684).
EasedProgress(direction, progress) ==
    IF direction = "out"
    THEN Unit - PowUnit(Unit - progress, 20)
    ELSE IF 2 * progress < Unit
         THEN (2 * progress * progress) \div Unit
         ELSE Unit - (2 * PowUnit(Unit - progress, 2))

\* ApplySmoothedVolume with the newest entry dropped from a full history
\* instead of the oldest: a deliberately wrong variant.
ApplySmoothedVolumeKeepOldest(st, volumeToSet) ==
    LET pushed == Append(st.volumeHistory, volumeToSet)
        history == IF Len(pushed) > volumeHistorySize
                   THEN SubSeq(pushed, 1, volumeHistorySize) ELSE pushed
        smoothed == SeqSum(history) \div Len(history)
    IN  setAudioVolume([st EXCEPT !.volumeHistory = history,
                                  !.smoothedVolume = smoothed], smoothed)

\* ApplySmoothedVolume emitting the sum of the history instead of its mean:
\* a deliberately wrong variant.
ApplySmoothedVolumeSum(st, volumeToSet) ==
    LET pushed == Append(st.volumeHistory, volumeToSet)
        history == IF Len(pushed) > volumeHistorySize THEN Tail(pushed) ELSE pushed
        smoothed == SeqSum(history)
    IN  setAudioVolume([st EXCEPT !.volumeHistory = history,
                                  !.smoothedVolume = smoothed], smoothed)

\* ApplySmoothedVolume without the shift of lines 723-725: a deliberately
\* wrong variant.
ApplySmoothedVolumeNoShift(st, volumeToSet) ==
    LET history == Append(st.volumeHistory, volumeToSet)
        smoothed == SeqSum(history) \div Len(history)
    IN  setAudioVolume([st EXCEPT !.volumeHistory = history,
                                  !.smoothedVolume = smoothed], smoothed)

\* volumeHistory.push(volumeToSet) and what follows it (lines 722-732).
ApplySmoothedVolume(st, volumeToSet) ==
    LET pushed == Append(st.volumeHistory, volumeToSet)
        history == IF Len(pushed) > volumeHistorySize THEN Tail(pushed) ELSE pushed
        smoothed == SeqSum(history) \div Len(history)
    IN  setAudioVolume([st EXCEPT !.volumeHistory = history,
                                  !.smoothedVolume = smoothed], smoothed)

\* IsFadingFromZero taking any rise for a rise from zero.
IsFadingFromZeroAnyRise(currentVol, clampedTarget) ==
    currentVol < clampedTarget /\ clampedTarget > Unit \div 100

\* const isFadingFromZero, isFadingToZero (lines 632-633).
IsFadingFromZero(currentVol, clampedTarget) ==
    currentVol < Unit \div 100 /\ clampedTarget > Unit \div 100

IsFadingToZero(currentVol, clampedTarget) ==
    currentVol > Unit \div 100 /\ clampedTarget < Unit \div 100

\* ShouldFade whatever the fade durations are.
ShouldFadeAnyDuration(st, currentVol, clampedTarget) ==
    \/ IsFadingFromZero(currentVol, clampedTarget)
    \/ IsFadingToZero(currentVol, clampedTarget)

\* const shouldFade (lines 636-639): a fade of duration 0 is disabled.
ShouldFade(st, currentVol, clampedTarget) ==
    \/ IsFadingFromZero(currentVol, clampedTarget) /\ st.fadeInDuration > 0
    \/ IsFadingToZero(currentVol, clampedTarget) /\ st.fadeOutDuration > 0

\* EndFade emitting the eased volume of the fade.
EndFadeAtEasedVolume(st, clampedTarget, fadeVolume) ==
    ApplySmoothedVolume([st EXCEPT !.isFading = FALSE], fadeVolume)

\* The fade stops (lines 699-702): isFading = false and volumeToSet is the
\* call's target, not fadeVolume.
EndFade(st, clampedTarget, fadeVolume) ==
    ApplySmoothedVolume([st EXCEPT !.isFading = FALSE], clampedTarget)

\* StartsFade starting a fade over the one that is active.
StartsFadeOverActive(st, shouldFade) == shouldFade

\* if (shouldFade && !this.isFading) (line 641).
StartsFade(st, shouldFade) == shouldFade /\ ~st.isFading

smoothSetAudioVolume(st, targetVolume) ==
    LET clampedTarget == Max(0, Min(Unit, targetVolume))
        currentVol == st.currentVolume
        isFadingFromZero == IsFadingFromZero(currentVol, clampedTarget)
        shouldFade == ShouldFade(st, currentVol, clampedTarget)
        started ==
            IF StartsFade(st, shouldFade)
            THEN [st EXCEPT !.isFading = TRUE,
                            !.fadeStartTime = st.now,
                            !.fadeStartVolume = currentVol,
                            !.fadeTargetVolume = clampedTarget,
                            !.currentFadeDirection =
                                IF isFadingFromZero THEN "in" ELSE "out",
                            !.volumeHistory = <<>>,
                            !.smoothedVolume = currentVol]
            ELSE st
        targetChanged ==
            Abs(started.fadeTargetVolume - clampedTarget) > Unit \div 50
        retargeted ==
            IF targetChanged
            THEN [started EXCEPT !.fadeTargetVolume = clampedTarget]
            ELSE started
        elapsed == st.now - retargeted.fadeStartTime
        fadeDuration == IF retargeted.currentFadeDirection = "in"
                        THEN st.fadeInDuration ELSE st.fadeOutDuration
        progress == IF fadeDuration > 0
                    THEN Min((elapsed * Unit) \div fadeDuration, Unit)
                    ELSE Unit
        easedProgress == EasedProgress(retargeted.currentFadeDirection, progress)
        volumeRange == retargeted.fadeTargetVolume - retargeted.fadeStartVolume
        fadeVolume == retargeted.fadeStartVolume
                          + ((volumeRange * easedProgress) \div Unit)
        reachedTarget == Abs(currentVol - clampedTarget) < Unit \div 100
        directionChanged ==
            \/ retargeted.fadeStartVolume < clampedTarget /\ currentVol > clampedTarget
            \/ retargeted.fadeStartVolume > clampedTarget /\ currentVol < clampedTarget
        closeEnough ==
            Abs(currentVol - clampedTarget) < Unit \div 20 /\ ~targetChanged
        stops == progress >= Unit \/ reachedTarget \/ directionChanged \/ closeEnough
    IN  IF started.isFading
        THEN IF stops
             THEN EndFade(retargeted, clampedTarget, fadeVolume)
             ELSE ApplySmoothedVolume(retargeted, fadeVolume)
        ELSE IF ~shouldFade
             THEN ApplySmoothedVolume(started, clampedTarget)
             ELSE ApplySmoothedVolume(started, currentVol)

----------------------------------------------------------------------------
(* The note sequencer.                                                     *)
(*                                                                         *)
(* An audio node is known by an id.  A node that is stopped and that no    *)
(* field and no timer refers to any more cannot act again, so its id is    *)
(* free for the next node.  A note-stop timer carries the id of the node   *)
(* its callback closed over.                                               *)

SourceIds == 1..MaxVoices

\* The ids something still refers to.
UsedIds(st) ==
    st.voices \cup st.timers \cup ({st.currentMidiSource, st.noteStopTimeout} \ {0})

FreeIds(st) == SourceIds \ UsedIds(st)

NewId(st) == CHOOSE i \in FreeIds(st) : \A j \in FreeIds(st) : i <= j

stopCurrentMidiNote(st) ==
    LET stopped ==
            IF st.currentMidiSource # 0
            THEN [st EXCEPT !.voices = @ \ {st.currentMidiSource},
                            !.selfEnding = @ \ {st.currentMidiSource},
                            !.currentMidiSource = 0]
            ELSE st
    IN  IF stopped.noteStopTimeout # 0
        THEN [stopped EXCEPT !.timers = @ \ {stopped.noteStopTimeout},
                             !.noteStopTimeout = 0]
        ELSE stopped

\* source.start(), the fields that keep the source, and the stop timer.
playMidiNoteWithViolinSample(st, note) ==
    IF FreeIds(st) = {}
    THEN [st EXCEPT !.ok = FALSE]
    ELSE LET source == NewId(st)
         IN  [st EXCEPT !.voices = @ \cup {source},
                        !.selfEnding = @ \cup {source},
                        !.currentMidiSource = source,
                        !.noteStopTimeout = source,
                        !.timers = @ \cup {source}]

\* oscillator.start(), then oscillator.stop(currentTime + duration / 1000),
\* which throws a TypeError when its argument is not finite: playMidiNote
\* catches it, and the assignment to currentMidiSource is never reached.
playMidiNoteWithSineWave(st, note) ==
    IF FreeIds(st) = {}
    THEN [st EXCEPT !.ok = FALSE]
    ELSE LET oscillator == NewId(st)
         IN  IF note.duration.cls = "finite"
             THEN [st EXCEPT !.voices = @ \cup {oscillator},
                             !.selfEnding = @ \cup {oscillator},
                             !.currentMidiSource = oscillator]
             ELSE [st EXCEPT !.voices = @ \cup {oscillator}]

playMidiNote(st, note) ==
    LET silenced == stopCurrentMidiNote(st)
    IN  IF silenced.violinSampleBuffer
        THEN playMidiNoteWithViolinSample(silenced, note)
        ELSE playMidiNoteWithSineWave(silenced, note)

\* await this.sleep(note.duration): the loop is suspended until its timer.
sleep(st, kind) ==
    IF st.sleepers.continuous + st.sleepers.test >= MaxSleepers
    THEN [st EXCEPT !.ok = FALSE]
    ELSE [st EXCEPT !.sleepers[kind] = @ + 1]

\* WrapIndex that goes back to the last note instead of the first.
WrapIndexToLast(st) ==
    IF st.currentNoteIndex >= Len(st.midiNotes) /\ st.midiNotes # <<>>
    THEN [st EXCEPT !.currentNoteIndex = Len(st.midiNotes) - 1]
    ELSE st

\* if (currentNoteIndex >= midiNotes.length) currentNoteIndex = 0
WrapIndex(st) ==
    IF st.currentNoteIndex >= Len(st.midiNotes)
    THEN [st EXCEPT !.currentNoteIndex = 0]
    ELSE st

\* The while loop of startContinuousMidiPlayback from its head to the next
\* sleep, or to the assignment after the loop.  With no notes, reading
\* note.pitch throws and the async function ends there.
ContinuousLoop(st) ==
    IF ~st.isPlayingMidiSequence
    THEN [st EXCEPT !.isPlayingMidiSequence = FALSE]
    ELSE IF st.playbackMode # "MIDI" \/ ~st.isImuPlaying
         THEN [st EXCEPT !.isPlayingMidiSequence = FALSE]
         ELSE LET wrapped == WrapIndex(st)
              IN  IF wrapped.midiNotes = <<>>
                  THEN wrapped
                  ELSE sleep(playMidiNote(wrapped,
                                 wrapped.midiNotes[wrapped.currentNoteIndex + 1]),
                             "continuous")

startContinuousMidiPlayback(st) ==
    IF st.isPlayingMidiSequence \/ Len(st.midiNotes) = 0
    THEN st
    ELSE ContinuousLoop([st EXCEPT !.isPlayingMidiSequence = TRUE])

\* stopContinuousMidiPlayback that leaves the current note sounding.
stopContinuousMidiPlaybackFlagOnly(st) ==
    [st EXCEPT !.isPlayingMidiSequence = FALSE]

stopContinuousMidiPlayback(st) ==
    stopCurrentMidiNote([st EXCEPT !.isPlayingMidiSequence = FALSE])

stopMidiPlayback(st) ==
    stopCurrentMidiNote([st EXCEPT !.isPlayingMidiSequence = FALSE])

playNextMidiNoteInSequence(st) ==
    IF ~st.isTestPlaying
    THEN [st EXCEPT !.isPlayingMidiSequence = FALSE]
    ELSE IF Len(st.midiNotes) = 0
         THEN st
         ELSE LET wrapped == WrapIndex(st)
              IN  sleep(playMidiNote(wrapped,
                            wrapped.midiNotes[wrapped.currentNoteIndex + 1]),
                        "test")

startTestMidiPlayback(st) ==
    IF Len(st.midiNotes) = 0
    THEN st
    ELSE playNextMidiNoteInSequence(
             [st EXCEPT !.isPlayingMidiSequence = TRUE, !.currentNoteIndex = 0])

\* The continuous loop after its sleep: currentNoteIndex++ and the loop head.
ContinuousResumed(st) ==
    ContinuousLoop([st EXCEPT !.sleepers.continuous = @ - 1,
                              !.currentNoteIndex = @ + 1])

\* playNextMidiNoteInSequence after its sleep (lines 2010-2018).
TestResumed(st) ==
    LET advanced == [st EXCEPT !.sleepers.test = @ - 1,
                               !.currentNoteIndex = @ + 1]
    IN  IF advanced.isTestPlaying
        THEN playNextMidiNoteInSequence(advanced)
        ELSE [advanced EXCEPT !.isPlayingMidiSequence = FALSE]

\* The callback of the note-stop timer set for source (lines 2115-2126).
NoteStopCallback(st, source) ==
    LET fired == [st EXCEPT !.timers = @ \ {source}]
    IN  IF fired.currentMidiSource = source
        THEN [fired EXCEPT !.voices = @ \ {source},
                           !.selfEnding = @ \ {source},
                           !.currentMidiSource = 0]
        ELSE fired

----------------------------------------------------------------------------
(* Motion samples.                                                         *)

NormalizedSpeed(st) == Min(st.motionSpeed \div MAX_MOTION_SPEED, Unit)

IsMoving(st) == NormalizedSpeed(st) >= motionThreshold

controlMidiPlayback(st) ==
    IF IsMoving(st) /\ ~st.isPlayingMidiSequence
    THEN startContinuousMidiPlayback(st)
    ELSE IF ~IsMoving(st) /\ st.isPlayingMidiSequence
         THEN stopContinuousMidiPlayback(st)
         ELSE st

\* A field of the line, by its text: a whole number, a text that is no
\* number ("abc"), the empty text, "NaN", "Infinity", or "1e999".
Num(n) == [text |-> "number", value |-> n]
Junk == [text |-> "junk", value |-> 0]
EmptyText == [text |-> "", value |-> 0]
NaNText == [text |-> "NaN", value |-> 0]
InfinityText == [text |-> "Infinity", value |-> 0]
OverflowText == [text |-> "1e999", value |-> 0]

\* parseFloat(part): "Infinity" is a number to it, and a decimal beyond the
\* largest double rounds to Infinity.
parseFloat(part) ==
    CASE part.text = "number" -> JsNum(part.value)
      [] part.text \in {"Infinity", "1e999"} -> JsInfinity
      [] OTHER -> JsNaN

\* x || 0: NaN and 0 are falsy, every other number is kept.
OrZero(x) ==
    IF x.cls = "NaN" \/ (x.cls = "finite" /\ x.val = 0) THEN JsNum(0) ELSE x

\* parseFloat(part) || 0
ParseField(part) == OrZero(parseFloat(part))

ImuData(parts) ==
    [ax |-> ParseField(parts[1]), ay |-> ParseField(parts[2]),
     az |-> ParseField(parts[3]), gx |-> ParseField(parts[4]),
     gy |-> ParseField(parts[5]), gz |-> ParseField(parts[6])]

\* Every field of the sample is a finite number.
IsFiniteSample(sample) ==
    \A f \in {"ax", "ay", "az", "gx", "gy", "gz"} : sample[f].cls = "finite"

\* The numbers of a finite sample.
FiniteSample(sample) ==
    [ax |-> sample.ax.val, ay |-> sample.ay.val, az |-> sample.az.val,
     gx |-> sample.gx.val, gy |-> sample.gy.val, gz |-> sample.gz.val]

\* DetectBow with the threshold itself counted as a stroke: a deliberately
\* wrong variant.
DetectBowInclusive(st, axTenths) ==
    LET currentDirection ==
            IF axTenths >= 2 THEN 1
            ELSE IF axTenths <= -2 THEN -1
            ELSE st.lastBowDirection
        name == IF currentDirection > 0 THEN "Up-Bow" ELSE "Down-Bow"
        changed == /\ currentDirection # 0
                   /\ st.lastBowDirection # 0
                   /\ currentDirection # st.lastBowDirection
        signalled == IF changed
                     THEN [st EXCEPT !.bowDirection = name,
                                     !.directionChanges = @ + 1]
                     ELSE st
    IN  IF currentDirection # 0
        THEN [signalled EXCEPT !.lastBowDirection = currentDirection,
                               !.bowDirection = name]
        ELSE signalled

\* detectBowDirection with imuData.ax given in tenths; accelThreshold is 0.2.
DetectBow(st, axTenths) ==
    LET currentDirection ==
            IF axTenths > 2 THEN 1
            ELSE IF axTenths < -2 THEN -1
            ELSE st.lastBowDirection
        name == IF currentDirection > 0 THEN "Up-Bow" ELSE "Down-Bow"
        changed == /\ currentDirection # 0
                   /\ st.lastBowDirection # 0
                   /\ currentDirection # st.lastBowDirection
        signalled == IF changed
                     THEN [st EXCEPT !.bowDirection = name,
                                     !.directionChanges = @ + 1]
                     ELSE st
    IN  IF currentDirection # 0
        THEN [signalled EXCEPT !.lastBowDirection = currentDirection,
                               !.bowDirection = name]
        ELSE signalled

\* The samples of the model are whole numbers.
detectBowDirection(st, sample) == DetectBow(st, sample.ax * 10)

\* Math.min(motionSpeed / MAX_MOTION_SPEED, 1.0)
Normalized(speed) == Min(speed \div MAX_MOTION_SPEED, Unit)

\* The target below the threshold (lines 1869-1876): the eased share of
\* maxGain.
GradientVolume(normalizedSpeed, threshold, maxGain) ==
    LET gradientProgress == Min((normalizedSpeed * Unit) \div threshold, Unit)
        smoothProgress == EasedProgress("in", gradientProgress)
    IN  (smoothProgress * maxGain) \div Unit

\* TargetGain giving full scale above the threshold instead of maxGain:
\* a deliberately wrong variant.
TargetGainFullScale(speed, threshold, maxGain) ==
    IF Normalized(speed) >= threshold THEN Unit
    ELSE GradientVolume(Normalized(speed), threshold, maxGain)

\* The target volume of a motion speed (lines 1857-1876).
TargetGain(speed, threshold, maxGain) ==
    IF Normalized(speed) >= threshold
    THEN maxGain
    ELSE GradientVolume(Normalized(speed), threshold, maxGain)

\* ShouldPause with a limit of 10% of maxGain instead of 5%: a deliberately
\* wrong variant.
ShouldPauseTenPercent(speed, threshold, maxGain) ==
    /\ Normalized(speed) < threshold
    /\ TargetGain(speed, threshold, maxGain) * 10 < maxGain

\* shouldPause (line 1879), which is read below the threshold only.
ShouldPause(speed, threshold, maxGain) ==
    /\ Normalized(speed) < threshold
    /\ TargetGain(speed, threshold, maxGain) * 20 < maxGain

\* The volume handed to smoothSetAudioVolume (lines 1865, 1883, 1901).
RequestedVolume(speed, threshold, maxGain) ==
    IF ShouldPause(speed, threshold, maxGain)
    THEN 0
    ELSE TargetGain(speed, threshold, maxGain)

\* ControlMp3Volume that pauses as soon as the pause policy applies.
ControlMp3VolumePauseAtOnce(st) ==
    LET requested == RequestedVolume(st.motionSpeed, motionThreshold, maxVolume)
        resumed == IF st.audioPaused THEN play(st) ELSE st
        faded == smoothSetAudioVolume(st, 0)
    IN  IF ShouldPause(st.motionSpeed, motionThreshold, maxVolume)
        THEN IF ~faded.audioPaused
             THEN setAudioVolume(forcePause(faded), 0)
             ELSE faded
        ELSE smoothSetAudioVolume(resumed, requested)

\* The MP3 branch of updateAudioVolume (lines 1856-1904).
ControlMp3Volume(st) ==
    LET requested == RequestedVolume(st.motionSpeed, motionThreshold, maxVolume)
        resumed == IF st.audioPaused THEN play(st) ELSE st
        faded == smoothSetAudioVolume(st, 0)
    IN  IF ShouldPause(st.motionSpeed, motionThreshold, maxVolume)
        THEN IF faded.smoothedVolume < Unit \div 100 /\ ~faded.audioPaused
             THEN setAudioVolume(forcePause(faded), 0)
             ELSE faded
        ELSE smoothSetAudioVolume(resumed, requested)

\* MeasureMotion dropping the newest magnitude from a full window instead of
\* the oldest: a deliberately wrong variant.
MeasureMotionKeepOldest(st, sample) ==
    LET gyroMagnitude == Magnitude(sample.gx, sample.gy, sample.gz)
        accelMagnitude == Magnitude(sample.ax, sample.ay, sample.az)
        combinedMotion == gyroMagnitude * ((Unit * 7) \div 10)
                              + accelMagnitude * ((Unit * 3) \div 10)
        pushed == Append(st.motionHistory, combinedMotion)
        history == IF Len(pushed) > maxHistorySize
                   THEN SubSeq(pushed, 1, maxHistorySize) ELSE pushed
    IN  [st EXCEPT !.motionHistory = history,
                   !.motionSpeed = SeqSum(history) \div Len(history)]

\* The motion speed of updateAudioVolume (lines 1828-1848).
MeasureMotion(st, sample) ==
    LET gyroMagnitude == Magnitude(sample.gx, sample.gy, sample.gz)
        accelMagnitude == Magnitude(sample.ax, sample.ay, sample.az)
        combinedMotion == gyroMagnitude * ((Unit * 7) \div 10)
                              + accelMagnitude * ((Unit * 3) \div 10)
        pushed == Append(st.motionHistory, combinedMotion)
        history == IF Len(pushed) > maxHistorySize THEN Tail(pushed) ELSE pushed
    IN  [st EXCEPT !.motionHistory = history,
                   !.motionSpeed = SeqSum(history) \div Len(history)]

updateAudioVolume(st, sample) ==
    LET measured == MeasureMotion(st, sample)
        sequenced == IF measured.playbackMode = "MIDI" /\ measured.isImuPlaying
                     THEN controlMidiPlayback(measured)
                     ELSE measured
    IN  IF /\ sequenced.playbackMode = "MP3" /\ ~sequenced.isTestPlaying
           /\ sequenced.isImuPlaying /\ sequenced.audioSrc
        THEN ControlMp3Volume(sequenced)
        ELSE sequenced

\* processData up to the assignment of this.imuData (lines 1787-1797).
StoreSample(st, parts) == [st EXCEPT !.imuData = ImuData(parts)]

\* processData storing whatever fields a short line has, the missing ones as
\* 0: a deliberately wrong variant.
processDataPadsShortLine(st, parts) ==
    LET padded == [i \in 1..6 |-> IF i <= Len(parts) THEN parts[i] ELSE Num(0)]
        stored == StoreSample(st, IF Len(parts) >= 6 THEN parts ELSE padded)
        sample == FiniteSample(stored.imuData)
    IN  IF IsFiniteSample(stored.imuData)
        THEN updateAudioVolume(detectBowDirection(stored, sample), sample)
        ELSE [stored EXCEPT !.ok = FALSE]

\* The motion arithmetic is modelled for finite samples.
processData(st, parts) ==
    IF Len(parts) >= 6
    THEN LET stored == StoreSample(st, parts)
             sample == FiniteSample(stored.imuData)
         IN  IF IsFiniteSample(stored.imuData)
             THEN updateAudioVolume(detectBowDirection(stored, sample), sample)
             ELSE [stored EXCEPT !.ok = FALSE]
    ELSE st

----------------------------------------------------------------------------
(* Playback controls.  The audio context of the MP3 path is running, so    *)
(* the handlers do not wait for audioContext.resume().                     *)

setPlaybackMode(st, mode) ==
    IF st.playbackMode = mode
    THEN st
    ELSE LET switched == [st EXCEPT !.playbackMode = mode]
         IN  IF mode = "MIDI" THEN forcePause(switched) ELSE stopMidiPlayback(switched)

\* forcePause() in MP3 mode, stopMidiPlayback() in MIDI mode.
StopAudio(st) ==
    IF st.playbackMode = "MP3" THEN forcePause(st) ELSE stopMidiPlayback(st)

toggleImuPlayback(st) ==
    LET toggled == [st EXCEPT !.isImuPlaying = ~st.isImuPlaying]
        testStopped == IF toggled.isTestPlaying
                       THEN StopAudio([toggled EXCEPT !.isTestPlaying = FALSE])
                       ELSE toggled
    IN  IF toggled.isImuPlaying
        THEN IF testStopped.audioSrc /\ testStopped.playbackMode = "MP3"
             THEN play(testStopped)
             ELSE testStopped
        ELSE StopAudio(toggled)

toggleTestPlayback(st) ==
    LET toggled == [st EXCEPT !.isTestPlaying = ~st.isTestPlaying]
        imuPaused == IF toggled.isImuPlaying
                     THEN StopAudio([toggled EXCEPT !.isImuPlaying = FALSE])
                     ELSE toggled
    IN  IF toggled.isTestPlaying
        THEN IF imuPaused.playbackMode = "MP3"
             THEN play(setAudioVolume(imuPaused, maxVolume))
             ELSE startTestMidiPlayback(imuPaused)
        ELSE StopAudio(toggled)

\* loadTrack after its cache lookup (lines 2262-2302): the connection to
\* the bow is up.
LoadTrackResumed(st) ==
    LET loaded == [st EXCEPT !.audioSrc = TRUE, !.trackLoads = @ - 1]
        imuStarted == IF loaded.isImuPlaying THEN play(loaded) ELSE loaded
    IN  IF imuStarted.isTestPlaying /\ imuStarted.playbackMode = "MP3"
        THEN play(setAudioVolume(imuStarted, maxVolume))
        ELSE imuStarted

----------------------------------------------------------------------------
(* Loading a MIDI file.                                                    *)

loadFallbackScale(st) ==
    [st EXCEPT
        !.midiNotes =
            << [pitch |-> 67, velocity |-> 80, duration |-> JsNum(500)],
               [pitch |-> 69, velocity |-> 80, duration |-> JsNum(500)],
               [pitch |-> 71, velocity |-> 80, duration |-> JsNum(500)],
               [pitch |-> 72, velocity |-> 80, duration |-> JsNum(500)],
               [pitch |-> 74, velocity |-> 80, duration |-> JsNum(500)],
               [pitch |-> 76, velocity |-> 80, duration |-> JsNum(500)],
               [pitch |-> 78, velocity |-> 80, duration |-> JsNum(500)],
               [pitch |-> 79, velocity |-> 80, duration |-> JsNum(1000)] >>,
        !.currentNoteIndex = 0]

\* UseParsedNotes that installs whatever the parser returned.
UseParsedNotesNoFallback(st, notes) ==
    [st EXCEPT !.midiNotes = notes, !.currentNoteIndex = 0]

\* parseMidiFile once the race is won by the parse (lines 2573-2582).
UseParsedNotes(st, notes) ==
    IF Len(notes) > 0
    THEN [st EXCEPT !.midiNotes = notes, !.currentNoteIndex = 0]
    ELSE loadFallbackScale(st)

----------------------------------------------------------------------------
(* Inputs of the player.                                                   *)

\* Lines received from the bow: a still sample, a moving one, and a line
\* cut short.
StillLine == <<Num(0), Num(0), Num(0), Num(0), Num(0), Num(0)>>
MovingLine == <<Num(0), Num(0), Num(0), Num(500), Junk, Num(0)>>
ShortLine == <<Num(0), Num(0), Num(500)>>
Lines == {StillLine, MovingLine, ShortLine}

\* A sample of a slow bow: below the motion threshold, above the pause level.
SlowLine == <<Num(0), Num(0), Num(0), Num(30), Num(0), Num(0)>>
FadeLines == Lines \cup {SlowLine}

Modes == {"MP3", "MIDI"}

\* The MIDI files the user can select: two notes, a header whose division
\* is 0, and an empty file.
TwoNoteFile ==
    [division |-> 480,
     tracks |-> << <<NoteOn(0, 69, 80), NoteOff(240, 69),
                     NoteOn(0, 71, 90), NoteOff(480, 71)>> >>]
ZeroDivisionFile ==
    [division |-> 0, tracks |-> << <<NoteOn(0, 69, 80), NoteOff(240, 69)>> >>]

MidiFileNames == {"two-notes.mid", "zero-division.mid", "empty.mid"}

MidiFileBytes(name) ==
    CASE name = "two-notes.mid" -> FileBytes(TwoNoteFile)
      [] name = "zero-division.mid" -> FileBytes(ZeroDivisionFile)
      [] name = "empty.mid" -> <<>>

\* What parseMidiBytes returns on each file.
TwoNoteResult == parseMidiBytes(MidiFileBytes("two-notes.mid"))
ZeroDivisionResult == parseMidiBytes(MidiFileBytes("zero-division.mid"))
EmptyResult == parseMidiBytes(MidiFileBytes("empty.mid"))

ParseResultOf(name) ==
    CASE name = "two-notes.mid" -> TwoNoteResult
      [] name = "zero-division.mid" -> ZeroDivisionResult
      [] name = "empty.mid" -> EmptyResult

\* A file whose parse keeps the thread busy for 20 s; the other files parse
\* at once.  It holds the notes of the two-note file.
SlowFileName == "slow.mid"

AnyFileNames == MidiFileNames \cup {SlowFileName}

\* What parseMidiBytes returns on a file, the slow one included.
ParsedNotesOf(name) ==
    IF name = SlowFileName THEN TwoNoteResult.notes ELSE ParseResultOf(name).notes

\* The time parseMidiBytes runs on a file, in ms.
ParseTimeOf(name) == IF name = SlowFileName THEN 20000 ELSE 0

\* Time between two lines from the bow, in ms.
TimeSteps == {100, 400}

----------------------------------------------------------------------------
(* The parser harness.                                                     *)

NoResult == [raised |-> FALSE, notes |-> <<>>]

\* No call is followed step by step.
NoCursor == [trackNum |-> 0, offset |-> 0, trackEnd |-> 0, ctx |-> TrackStart(0, 0)]

\* The gain mapping has not been evaluated.
NoGain == [done |-> FALSE, lo |-> 0, hi |-> 0, pause |-> FALSE, requested |-> 0]

\* No evaluation of the gain mapping is under test.
GainIdle ==
    /\ gainInput = [lo |-> 0, hi |-> 0, threshold |-> motionThreshold,
                    maxGain |-> maxVolume]
    /\ gainOutput = NoGain

\* No round trip of the fade engine is under test.
TripIdle == tripPhase = "idle" /\ tripPeak = 0 /\ tripCalls = 0

\* No line has been read.
NoLine == linesRead = <<>> /\ axRead = <<>> /\ notesRead = <<>>

MidiInit ==
    /\ file \in WellFormedFiles
    /\ bytes = FileBytes(file)
    /\ parsePc = "input"
    /\ parseResult = NoResult
    /\ parseCursor = NoCursor
    /\ GainIdle
    /\ TripIdle
    /\ NoLine
    /\ Constructed

\* The buffer is cut short: a truncated prefix of the file.
Truncate ==
    /\ parsePc = "input"
    /\ bytes = FileBytes(file)
    /\ \E n \in 0..(Len(bytes) - 1) : bytes' = SubSeq(bytes, 1, n)
    /\ UNCHANGED <<parseCursor, file, parsePc, parseResult, gainVars, tripVars, lineVars, appVars>>

\* One byte of the buffer is overwritten.
Corrupt ==
    /\ parsePc = "input"
    /\ bytes = FileBytes(file)
    /\ \E i \in 1..Len(bytes), v \in CorruptValues :
          /\ bytes[i] # v
          /\ bytes' = [bytes EXCEPT ![i] = v]
    /\ UNCHANGED <<parseCursor, file, parsePc, parseResult, gainVars, tripVars, lineVars, appVars>>

\* parseMidiBytes(bytes) is called and returns.
Parse ==
    /\ parsePc = "input"
    /\ parseResult' = parseMidiBytes(bytes)
    /\ parsePc' = "done"
    /\ UNCHANGED <<parseCursor, file, bytes, gainVars, tripVars, lineVars, appVars>>

MidiNext == Truncate \/ Corrupt \/ Parse

MidiSpec == MidiInit /\ [][MidiNext]_vars

----------------------------------------------------------------------------
(* The parser on a track table whose declared sizes are wrong: the header  *)
(* declares two or three tracks and the length field of the second track   *)
(* is overwritten with any four bytes.                                     *)

\* buf with the bytes of seq written from offset on.
WriteAt(buf, offset, seq) ==
    [i \in 1..Len(buf) |->
        IF i > offset /\ i <= offset + Len(seq) THEN seq[i - offset] ELSE buf[i]]

\* Offset of the second track's 'MTrk' in the bytes of a file.
SecondTrackStart(f) == 14 + Len(TrackBytes(f.tracks[1]))

\* Files of two tracks.
TwoTrackFiles == {f \in WellFormedFiles : Len(f.tracks) = 2}

\* The four bytes of the two's complement of k, for k in 1..256.
MinusBytes(k) == <<255, 255, 255, 256 - k>>

\* Length fields written over the second track's: zero, longer than the
\* file, and values with the high bit set, among them the ones that lead
\* back to the second track's own header and to the first track's.
DeclaredLengths(f) ==
    { <<0, 0, 0, 0>>, <<0, 0, 1, 0>>, <<127, 0, 0, 0>>, <<200, 0, 0, 0>>,
      MinusBytes(1), MinusBytes(8),
      MinusBytes(8 + Len(TrackBytes(f.tracks[1]))) }

\* Track counts written into the header.
DeclaredCounts == {2, 3}

LengthInit ==
    /\ file \in TwoTrackFiles
    /\ bytes = FileBytes(file)
    /\ parsePc = "input"
    /\ parseResult = NoResult
    /\ parseCursor = NoCursor
    /\ GainIdle
    /\ TripIdle
    /\ NoLine
    /\ Constructed

\* The header's track count and the second track's length are overwritten.
DeclareLength ==
    /\ parsePc = "input"
    /\ bytes = FileBytes(file)
    /\ \E count \in DeclaredCounts, length \in DeclaredLengths(file) :
          bytes' = WriteAt(WriteAt(bytes, 10, U16(count)),
                           SecondTrackStart(file) + 4, length)
    /\ UNCHANGED <<parseCursor, file, parsePc, parseResult, gainVars, tripVars, lineVars, appVars>>

LengthNext == DeclareLength \/ Parse

LengthSpec == LengthInit /\ [][LengthNext]_vars

----------------------------------------------------------------------------
(* The parser on tracks written with running status: an event of the file  *)
(* may leave out its status byte.                                          *)

\* The status byte and the data bytes of an event.
StatusOf(ev) ==
    CASE ev.kind = "on" -> 144
      [] ev.kind = "off" -> 128
      [] ev.kind = "tempo" -> 255

DataOf(ev) ==
    IF ev.kind = "tempo"
    THEN <<81, 3, ev.tempo \div 65536, (ev.tempo \div 256) % 256, ev.tempo % 256>>
    ELSE <<ev.pitch, ev.velocity>>

\* The bytes of the events from index idx on, the events whose index is in
\* omitted being written without their status byte.
RECURSIVE RunningEventsBytes(_, _, _)
RunningEventsBytes(events, idx, omitted) ==
    IF idx > Len(events) THEN <<>>
    ELSE VLQ(events[idx].delta)
         \o (IF idx \in omitted THEN <<>> ELSE <<StatusOf(events[idx])>>)
         \o DataOf(events[idx])
         \o RunningEventsBytes(events, idx + 1, omitted)

RunningTrackBytes(events, omitted) ==
    LET body == RunningEventsBytes(events, 1, omitted) \o EndOfTrackBytes
    IN  <<77, 84, 114, 107>> \o U32(Len(body)) \o body

\* A file with running status: omitted[t] holds the indices of the events of
\* track t written without a status byte.
RunningFileBytes(f) ==
    <<77, 84, 104, 100>> \o U32(6) \o U16(IF Len(f.tracks) > 1 THEN 1 ELSE 0)
    \o U16(Len(f.tracks)) \o U16(f.division)
    \o RunningTrackBytes(f.tracks[1], f.omitted[1])
    \o (IF Len(f.tracks) > 1 THEN RunningTrackBytes(f.tracks[2], f.omitted[2])
        ELSE <<>>)

\* Second tracks of the files with running status.
RunningSecondTracks == {<<NoteOn(0, 71, 90), NoteOn(240, 71, 0)>>}

RunningTrackLists ==
    {<<l>> : l \in EventLists(MaxEvents)}
    \cup {<<l, t>> : l \in EventLists(MaxEvents), t \in RunningSecondTracks}

RunningFiles ==
    { f \in [division : {480}, tracks : RunningTrackLists,
             omitted : [1..2 -> SUBSET (1..MaxEvents)]] :
        \A t \in 1..2 :
            f.omitted[t] \subseteq (IF t <= Len(f.tracks)
                                    THEN 1..Len(f.tracks[t]) ELSE {}) }

RunningInit ==
    /\ file \in RunningFiles
    /\ bytes = RunningFileBytes(file)
    /\ parsePc = "input"
    /\ parseResult = NoResult
    /\ parseCursor = NoCursor
    /\ GainIdle
    /\ TripIdle
    /\ NoLine
    /\ Constructed

RunningNext == Parse

RunningSpec == RunningInit /\ [][RunningNext]_vars

----------------------------------------------------------------------------
(* The parser on well-formed files of notes on two pitches, Note-Ons that  *)
(* repeat, closing events of both kinds and tempo changes.                 *)

\* Most events in the first track of such a file.
MaxNoteEvents == 3

NoteEventMenu ==
    { NoteOn(0, 69, 80), NoteOn(120, 69, 90), NoteOff(240, 69), NoteOn(240, 69, 0),
      NoteOn(0, 71, 70), NoteOff(120, 71), SetTempo(0, 600000) }

RECURSIVE NoteEventLists(_)
NoteEventLists(n) ==
    IF n = 0 THEN {<<>>}
    ELSE LET shorter == NoteEventLists(n - 1)
         IN  shorter \cup {Append(l, ev) : l \in shorter, ev \in NoteEventMenu}

\* Second tracks: a note at the default tempo, and one after a tempo change.
NoteSecondTracks ==
    { <<NoteOn(0, 71, 90), NoteOn(240, 71, 0)>>,
      <<SetTempo(0, 250000), NoteOn(0, 72, 60), NoteOff(480, 72)>> }

NoteFiles ==
    [division : {480},
     tracks : {<<l>> : l \in NoteEventLists(MaxNoteEvents)}
              \cup {<<l, t>> : l \in NoteEventLists(MaxNoteEvents),
                               t \in NoteSecondTracks}]

EventInit ==
    /\ file \in NoteFiles
    /\ bytes = FileBytes(file)
    /\ parsePc = "input"
    /\ parseResult = NoResult
    /\ parseCursor = NoCursor
    /\ GainIdle
    /\ TripIdle
    /\ NoLine
    /\ Constructed

EventNext == Parse

EventSpec == EventInit /\ [][EventNext]_vars

----------------------------------------------------------------------------
(* parseMidiBytes followed step by step on two files whose first track     *)
(* holds more events than the event loop may read: one step per track      *)
(* entered, per iteration of the event loop and per track left.  The       *)
(* buffer is named by `file`; `bytes` stays empty.                         *)

\* A 32-bit big-endian length.
Bytes32(n) ==
    <<n \div 16777216, (n \div 65536) % 256, (n \div 256) % 256, n % 256>>

\* Note 69 for 240 ticks, then a Program Change.
LeadIn == <<0, 144, 69, 80, 129, 112, 128, 69, 64, 0, 192, 0>>

\* n Program Changes in running status: delta 0, program 0.
Filler(n) == [i \in 1..(2 * n) |-> 0]

\* Note 71 for 240 ticks, then End of Track.
LeadOut == <<0, 144, 71, 90, 129, 112, 128, 71, 64>> \o EndOfTrackBytes

\* A file of two tracks: a first track of body `body`, and note 72.
LongFile(body) ==
    <<77, 84, 104, 100>> \o U32(6) \o U16(1) \o U16(2) \o U16(480)
    \o <<77, 84, 114, 107>> \o Bytes32(Len(body)) \o body
    \o TrackBytes(<<NoteOn(0, 72, 60), NoteOff(480, 72)>>)

\* Note 71 starts at iteration maxLoops + 1 of the first track.
OverCapBytes == LongFile(LeadIn \o Filler(maxLoops - 3) \o LeadOut)

\* Note 71 ends at iteration maxLoops of the first track.
AtCapBytes == LongFile(LeadIn \o Filler(maxLoops - 5) \o LeadOut)

StepFileNames == {"over-cap.mid", "at-cap.mid"}

\* The buffer handed to parseMidiBytes: one of the two long files, or the
\* bytes under test.
StepBuffer(name) ==
    IF name = "over-cap.mid" THEN OverCapBytes
    ELSE IF name = "at-cap.mid" THEN AtCapBytes
    ELSE bytes

\* The while condition of the event loop.
InEventLoop(buf, cursor) ==
    /\ cursor.ctx.running
    /\ cursor.ctx.offset < cursor.trackEnd
    /\ cursor.ctx.offset < Len(buf)

\* ticksPerQuarter as parseMidiBytes computes it.
TicksPerQuarterOf(buf) ==
    LET division == readInt16(buf, 12) IN IF division >= 0 THEN division ELSE 480

StepInit ==
    /\ file \in StepFileNames
    /\ bytes = <<>>
    /\ parsePc = "input"
    /\ parseResult = NoResult
    /\ parseCursor = NoCursor
    /\ GainIdle
    /\ TripIdle
    /\ NoLine
    /\ Constructed

\* parseMidiBytes is called: the header is read.
BeginParse ==
    /\ parsePc = "input"
    /\ IF HeaderRejected(StepBuffer(file))
       THEN parsePc' = "done" /\ UNCHANGED parseCursor
       ELSE parsePc' = "tracks" /\ parseCursor' = [NoCursor EXCEPT !.offset = 14]
    /\ UNCHANGED <<file, bytes, parseResult, gainVars, tripVars, lineVars, appVars>>

\* The head of the track loop: the loop ends, or a track is entered.
EnterTrack ==
    /\ parsePc = "tracks"
    /\ LET buf == StepBuffer(file)
           offset == parseCursor.offset
           trackEnd == offset + 8 + readInt32(buf, offset + 4)
       IN  IF \/ parseCursor.trackNum >= readInt16(buf, 10)
              \/ offset + 8 > Len(buf)
              \/ ~HasTrackMagic(buf, offset)
              \/ trackEnd > Len(buf)
           THEN parsePc' = "done" /\ UNCHANGED parseCursor
           ELSE /\ parsePc' = "events"
                /\ parseCursor' = [parseCursor EXCEPT
                                      !.trackEnd = trackEnd,
                                      !.ctx = TrackStart(offset + 8, defaultTempo)]
    /\ UNCHANGED <<file, bytes, parseResult, gainVars, tripVars, lineVars, appVars>>

\* One iteration of the event loop.
ReadEvent ==
    /\ parsePc = "events"
    /\ InEventLoop(StepBuffer(file), parseCursor)
    /\ parseCursor' = [parseCursor EXCEPT
                          !.ctx = TrackIteration(StepBuffer(file), parseCursor.trackEnd,
                                                 TicksPerQuarterOf(StepBuffer(file)), @)]
    /\ UNCHANGED <<file, bytes, parsePc, parseResult, gainVars, tripVars, lineVars,
                   appVars>>

\* The event loop has ended: the track's notes are pushed and the track
\* loop moves to trackEnd.
LeaveTrack ==
    /\ parsePc = "events"
    /\ ~InEventLoop(StepBuffer(file), parseCursor)
    /\ parseResult' = [parseResult EXCEPT
                          !.notes = PushNotes(@, parseCursor.ctx.notes)]
    /\ parseCursor' = [parseCursor EXCEPT !.trackNum = @ + 1,
                                          !.offset = parseCursor.trackEnd]
    /\ parsePc' = "tracks"
    /\ UNCHANGED <<file, bytes, gainVars, tripVars, lineVars, appVars>>

StepNext == BeginParse \/ EnterTrack \/ ReadEvent \/ LeaveTrack

StepSpec == StepInit /\ [][StepNext]_vars

----------------------------------------------------------------------------
(* parseMidiBytes followed step by step on damaged buffers: files cut      *)
(* short, files with one byte overwritten, and files whose only track is   *)
(* cut short and declares the length it is left with; the two long files   *)
(* are parsed as well.                                                     *)

\* The files the damaged buffers are made from.
DamagedFiles == {f \in WellFormedFiles : f.division = 480}

\* The file f with its only track cut to its first n bytes.
CutTrack(f, n) ==
    LET whole == FileBytes(f)
    IN  SubSeq(whole, 1, 18) \o U32(n) \o SubSeq(whole, 23, 22 + n)

DamagedBuffers ==
    UNION { {SubSeq(FileBytes(f), 1, n) : n \in 0..Len(FileBytes(f))}
            \cup {[FileBytes(f) EXCEPT ![i] = v] :
                      i \in 1..Len(FileBytes(f)), v \in CorruptValues}
            \cup (IF Len(f.tracks) = 1
                  THEN {CutTrack(f, n) : n \in 0..(Len(FileBytes(f)) - 22)}
                  ELSE {}) : f \in DamagedFiles }

DamagedFileName == "damaged.mid"

\* No buffer has been handed to parseMidiBytes yet.
BufferInit ==
    /\ file = DamagedFileName
    /\ bytes = <<>>
    /\ parsePc = "idle"
    /\ parseResult = NoResult
    /\ parseCursor = NoCursor
    /\ GainIdle
    /\ TripIdle
    /\ NoLine
    /\ Constructed

\* A buffer is chosen for parseMidiBytes: a long file or a damaged one.
ChooseBuffer ==
    /\ parsePc = "idle"
    /\ \/ file' \in StepFileNames /\ bytes' = <<>>
       \/ file' = DamagedFileName /\ bytes' \in DamagedBuffers
    /\ parsePc' = "input"
    /\ UNCHANGED <<parseResult, parseCursor, gainVars, tripVars, lineVars, appVars>>

BufferNext == ChooseBuffer \/ StepNext

BufferSpec == BufferInit /\ [][BufferNext]_vars

----------------------------------------------------------------------------
(* The player's events.                                                    *)

\* No buffer is under test.
HarnessIdle ==
    /\ file = [division |-> 0, tracks |-> <<>>]
    /\ bytes = <<>>
    /\ parsePc = "idle"
    /\ parseResult = NoResult
    /\ parseCursor = NoCursor

\* A line arrives from the bow.  Without an MP3 track Date.now() is never
\* read, and the clock is left alone.
ProcessData ==
    \E parts \in Lines :
        LET done == processData(World, parts)
        IN  WithinBounds(done) /\ Install(done)

\* One of the two mode buttons is clicked.
SetPlaybackMode ==
    \E mode \in Modes :
        LET done == setPlaybackMode(World, mode)
        IN  WithinBounds(done) /\ Install(done)

ToggleImuPlayback ==
    LET done == toggleImuPlayback(World)
    IN  WithinBounds(done) /\ Install(done)

ToggleTestPlayback ==
    LET done == toggleTestPlayback(World)
    IN  WithinBounds(done) /\ Install(done)

\* A note-stop timer expires.
NoteStopTimer ==
    \E source \in timers :
        LET done == NoteStopCallback(World, source)
        IN  WithinBounds(done) /\ Install(done)

\* The sleep of a continuous loop ends.
ContinuousWakes ==
    LET done == ContinuousResumed(World)
    IN  sleepers.continuous > 0 /\ WithinBounds(done) /\ Install(done)

\* The sleep of a test-playback chain ends.
TestWakes ==
    LET done == TestResumed(World)
    IN  sleepers.test > 0 /\ WithinBounds(done) /\ Install(done)

\* The audio engine ends a voice: the sample is over, or the oscillator
\* reaches its scheduled stop.
VoiceEnds ==
    \E v \in selfEnding :
        Install([World EXCEPT !.voices = @ \ {v}, !.selfEnding = @ \ {v}])

\* loadViolinSample: the sample is decoded (line 806).
ViolinSampleLoaded ==
    /\ ~violinSampleBuffer
    /\ Install([World EXCEPT !.violinSampleBuffer = TRUE])

\* parseMidiFile up to its first await: the invocation waits for
\* file.arrayBuffer().
StartParse(st, name) ==
    [st EXCEPT !.parseCount = @ + 1,
               !.parses = @ \cup {[id |-> st.parseCount + 1, name |-> name,
                                   stage |-> "reading", notes |-> <<>>,
                                   took |-> 0, timerSet |-> 0]}]

\* The user selects a MIDI file.
ParseMidiFile ==
    /\ parseCount < MaxParses
    /\ \E name \in MidiFileNames : Install(StartParse(World, name))

\* The user selects a file once more, whether or not the load before it
\* has run to its end.
ParseMidiFileAgain ==
    /\ MaxParses <= parseCount
    /\ parseCount < MaxParses + MaxReloads
    /\ \E name \in MidiFileNames : Install(StartParse(World, name))

\* The bytes arrive.  parseMidiBytes runs to its end inside the executor of
\* parsePromise (lines 2558-2565), which takes ParseTimeOf(name) ms; only
\* then is the 10 s timer set (lines 2568-2570), and the invocation waits
\* for the race.
ArrayBufferResolved ==
    \E p \in parses :
        /\ p.stage = "reading"
        /\ Install([World EXCEPT
                       !.now = @ + ParseTimeOf(p.name),
                       !.parses = (@ \ {p}) \cup
                           {[p EXCEPT !.stage = "racing",
                                      !.notes = ParsedNotesOf(p.name),
                                      !.took = ParseTimeOf(p.name),
                                      !.timerSet = now + ParseTimeOf(p.name)]}])

\* Reading the file fails: the catch block runs.
ArrayBufferRejected ==
    \E p \in parses :
        /\ p.stage = "reading"
        /\ Install(loadFallbackScale([World EXCEPT !.parses = @ \ {p}]))

\* The race is settled by the parse, and parseMidiFile runs to its end:
\* parsePromise was settled before the timer was set, and its reaction runs
\* before any timer callback, so the timer never settles the race.
RaceSettled ==
    \E p \in parses :
        /\ p.stage = "racing"
        /\ Install(UseParsedNotes([World EXCEPT !.parses = @ \ {p}], p.notes))

\* loadTrack is called and waits for the cache lookup (lines 2238-2250).
LoadTrack ==
    /\ trackLoads < MaxTrackLoads
    /\ Install(forcePause([World EXCEPT !.trackLoads = @ + 1]))

TrackLoaded ==
    /\ trackLoads > 0
    /\ Install(LoadTrackResumed(World))

\* A line arrives from the bow dt ms after the line before it.
TimedProcessData ==
    \E parts \in Lines, dt \in TimeSteps :
        LET done == processData([World EXCEPT !.now = @ + dt], parts)
        IN  now + dt <= MaxNow /\ WithinBounds(done) /\ Install(done)

\* A line arrives from a bow that is still, fast or slow, dt ms after the
\* line before it.
MotionSample ==
    \E parts \in FadeLines, dt \in TimeSteps :
        LET done == processData([World EXCEPT !.now = @ + dt], parts)
        IN  now + dt <= MaxNow /\ WithinBounds(done) /\ Install(done)

\* The sequencer: MIDI files are loaded and played; no MP3 track is loaded.
Init == HarnessIdle /\ GainIdle /\ TripIdle /\ NoLine /\ Constructed

Next ==
    \/ ProcessData
    \/ SetPlaybackMode
    \/ ToggleImuPlayback
    \/ ToggleTestPlayback
    \/ NoteStopTimer
    \/ ContinuousWakes
    \/ TestWakes
    \/ VoiceEnds
    \/ ViolinSampleLoaded
    \/ ParseMidiFile
    \/ ArrayBufferResolved
    \/ ArrayBufferRejected
    \/ RaceSettled

Spec == Init /\ [][Next]_vars

\* The loader: files are selected one after another while test playback
\* runs; the bow is silent.
LoadNext ==
    \/ SetPlaybackMode
    \/ ToggleTestPlayback
    \/ NoteStopTimer
    \/ TestWakes
    \/ VoiceEnds
    \/ ViolinSampleLoaded
    \/ ParseMidiFile
    \/ ParseMidiFileAgain
    \/ ArrayBufferResolved
    \/ ArrayBufferRejected
    \/ RaceSettled

LoadSpec == Init /\ [][LoadNext]_vars

\* The MP3 path: a track is loaded and faded by the motion; no MIDI file is
\* loaded.
FadeNext ==
    \/ TimedProcessData
    \/ SetPlaybackMode
    \/ ToggleImuPlayback
    \/ ToggleTestPlayback
    \/ LoadTrack
    \/ TrackLoaded

FadeSpec == Init /\ [][FadeNext]_vars

\* The motion-driven MP3 path: a track is loaded, IMU playback is toggled
\* and the bow moves at three speeds; the mode stays MP3.
MotionNext ==
    \/ MotionSample
    \/ ToggleImuPlayback
    \/ LoadTrack
    \/ TrackLoaded

MotionSpec == Init /\ [][MotionNext]_vars

----------------------------------------------------------------------------
(* The fade engine on its own: smoothSetAudioVolume is called with a       *)
(* target that goes from 0 to V and back to 0, the clock advancing between *)
(* the calls.                                                              *)

\* The targets V of a round trip.
PeakTargets == {Unit, Unit \div 10}

\* Time between two calls, in ms.
TripSteps == {20, 200}

\* smoothSetAudioVolume(V): the first call chooses V, the later ones hold it.
DriveUp ==
    /\ tripPhase \in {"idle", "up"}
    /\ tripCalls < MaxUpCalls
    /\ \E target \in PeakTargets, dt \in TripSteps :
          /\ tripPhase = "up" => target = tripPeak
          /\ \E done \in {smoothSetAudioVolume([World EXCEPT !.now = @ + dt],
                                                target)} :
                InstallFields(done)
          /\ tripPeak' = target
    /\ tripPhase' = "up"
    /\ tripCalls' = tripCalls + 1
    /\ UNCHANGED <<midiVars, gainVars, lineVars>>

\* smoothSetAudioVolume(0), after the target was V.
HoldAtZero ==
    /\ tripPhase \in {"up", "down"}
    /\ tripPhase = "down" => tripCalls < MaxDownCalls
    /\ \E dt \in TripSteps :
          \E done \in {smoothSetAudioVolume([World EXCEPT !.now = @ + dt], 0)} :
              InstallFields(done)
    /\ tripPhase' = "down"
    /\ tripCalls' = IF tripPhase = "up" THEN 1 ELSE tripCalls + 1
    /\ UNCHANGED <<midiVars, gainVars, lineVars, tripPeak>>

TripNext == DriveUp \/ HoldAtZero

\* The calls with target 0 keep coming while the model allows them.
TripSpec == Init /\ [][TripNext]_vars /\ WF_vars(HoldAtZero)


----------------------------------------------------------------------------
(* The two volume setters called with any volume, in any order.            *)

\* Volumes handed to the setters: below 0, 0, inside the range, above 1.
VolumeInputs == {0 - (Unit \div 2), 0, Unit \div 10, Unit \div 2, (3 * Unit) \div 2}

\* What a setter makes of the volume it is handed (lines 549, 628).
Clamped(volume) == Max(0, Min(Unit, volume))

\* setAudioVolume(volume), as the sliders and the test playback call it.
SetVolume ==
    /\ tripPhase \in {"idle", "free"}
    /\ tripCalls < MaxVolumeCalls
    /\ \E volume \in VolumeInputs :
          /\ \E done \in {setAudioVolume(World, volume)} : InstallFields(done)
          /\ tripPeak' = Max(tripPeak, Clamped(volume))
    /\ tripPhase' = "free"
    /\ tripCalls' = tripCalls + 1
    /\ UNCHANGED <<midiVars, gainVars, lineVars>>

\* smoothSetAudioVolume(targetVolume), some time after the previous call.
SmoothSetVolume ==
    /\ tripPhase \in {"idle", "free"}
    /\ tripCalls < MaxVolumeCalls
    /\ \E target \in VolumeInputs, dt \in TripSteps :
          /\ \E done \in {smoothSetAudioVolume([World EXCEPT !.now = @ + dt],
                                                target)} :
                InstallFields(done)
          /\ tripPeak' = Max(tripPeak, Clamped(target))
    /\ tripPhase' = "free"
    /\ tripCalls' = tripCalls + 1
    /\ UNCHANGED <<midiVars, gainVars, lineVars>>

VolumeNext == SetVolume \/ SmoothSetVolume

VolumeSpec == Init /\ [][VolumeNext]_vars

----------------------------------------------------------------------------
(* The motion-to-gain mapping of the MP3 branch on its own.                *)

\* Motion speeds, from rest to beyond MAX_MOTION_SPEED; 37.5 is normalized
\* to exactly the default threshold 0.15.
GainSpeeds ==
    {0, Unit, 5 * Unit, (15 * Unit) \div 2, 10 * Unit, 25 * Unit, 30 * Unit,
     (75 * Unit) \div 2, 100 * Unit, 250 * Unit, 400 * Unit}

\* Values of the motion threshold slider.
GainThresholds == {0, Unit \div 20, motionThreshold, Unit \div 2, Unit}

\* Values of the maximum volume slider.
GainMaxima == {0, Unit \div 2, maxVolume}

GainInit ==
    /\ HarnessIdle
    /\ TripIdle
    /\ NoLine
    /\ Constructed
    /\ gainInput \in [lo : GainSpeeds, hi : GainSpeeds,
                       threshold : GainThresholds, maxGain : GainMaxima]
    /\ gainInput.lo <= gainInput.hi
    /\ gainOutput = NoGain

\* The MP3 branch computes its target for the two speeds (lines 1857-1879).
ComputeGain ==
    /\ ~gainOutput.done
    /\ gainOutput' =
          [done |-> TRUE,
           lo |-> TargetGain(gainInput.lo, gainInput.threshold, gainInput.maxGain),
           hi |-> TargetGain(gainInput.hi, gainInput.threshold, gainInput.maxGain),
           pause |-> ShouldPause(gainInput.lo, gainInput.threshold,
                                 gainInput.maxGain),
           requested |-> RequestedVolume(gainInput.lo, gainInput.threshold,
                                         gainInput.maxGain)]
    /\ UNCHANGED <<midiVars, gainInput, tripVars, lineVars, appVars>>

GainNext == ComputeGain

GainSpec == GainInit /\ [][GainNext]_vars

----------------------------------------------------------------------------
(* processData on its own: lines of any length and any field text.         *)

\* What a field of a line can hold: numbers, text that is no number, nothing,
\* and the spellings of values that are no finite number.
FieldTexts ==
    {Num(0), Num(500), Junk, EmptyText, NaNText, InfinityText, OverflowText}

\* Lines of six fields: one field holds any text, the others hold 0.
SixFieldLines ==
    {[i \in 1..6 |-> IF i = k THEN text ELSE Num(0)] :
        k \in 1..6, text \in FieldTexts}

\* A line of seven fields.
LongLine == <<Num(1), Num(0), Num(0), Num(30), Num(0), Num(0), Junk>>

\* Lines of fewer than six fields, the empty line (one empty field) included.
ShortLines ==
    {ShortLine, <<EmptyText>>, <<Num(500), Num(500), Num(500), Num(500), Num(500)>>,
     <<InfinityText, Junk>>}

AnyLines == SixFieldLines \cup {LongLine} \cup ShortLines

\* Time between two lines, in ms.
LineGap == 100

\* processData(line), LineGap ms after the line before it.  The model follows
\* the player up to the first sample that is no finite number: the
\* arithmetic on such a sample (lines 1799-1802) is outside the model's
\* numbers, so of the state after that line only the stored sample is
\* modelled.
ReadLine ==
    /\ IsFiniteSample(imuData)
    /\ Len(linesRead) < MaxLines
    /\ \E parts \in AnyLines :
          /\ \E at \in {[World EXCEPT !.now = @ + LineGap]} :
                IF Len(parts) >= 6 /\ ~IsFiniteSample(ImuData(parts))
                THEN InstallFields(StoreSample(at, parts))
                ELSE \E done \in {processData(at, parts)} :
                        WithinBounds(done) /\ InstallFields(done)
          /\ linesRead' = Append(linesRead, parts)
    /\ UNCHANGED <<midiVars, gainVars, tripVars, axRead, notesRead>>

\* The player's controls work while the sample is one the model follows.
LineControls ==
    /\ IsFiniteSample(imuData)
    /\ (ToggleImuPlayback \/ LoadTrack \/ TrackLoaded)

LineNext == ReadLine \/ LineControls

LineSpec == Init /\ [][LineNext]_vars

----------------------------------------------------------------------------
(* The motion window on its own: samples of a still, slow or fast bow and  *)
(* short lines, in any order.                                              *)

\* processData(line) for a line from FadeLines.
ReadSample ==
    /\ Len(linesRead) < MaxSamples
    /\ \E parts \in FadeLines :
          /\ \E done \in {processData([World EXCEPT !.now = @ + LineGap], parts)} :
                WithinBounds(done) /\ InstallFields(done)
          /\ linesRead' = Append(linesRead, parts)
    /\ UNCHANGED <<midiVars, gainVars, tripVars, axRead, notesRead>>

WindowNext == ReadSample

WindowSpec == Init /\ [][WindowNext]_vars

----------------------------------------------------------------------------
(* detectBowDirection on its own: accelerations around the threshold.      *)

\* imuData.ax in tenths: beyond, at and inside the threshold of 0.2.
AxTenths == {-3, -2, 0, 2, 3}

\* detectBowDirection() with imuData.ax = ax / 10.
ReadAcceleration ==
    /\ Len(axRead) < MaxBowSamples
    /\ \E ax \in AxTenths :
          /\ \E done \in {DetectBow(World, ax)} : InstallFields(done)
          /\ axRead' = Append(axRead, ax)
    /\ UNCHANGED <<midiVars, gainVars, tripVars, linesRead, notesRead>>

BowNext == ReadAcceleration

BowSpec == Init /\ [][BowNext]_vars

----------------------------------------------------------------------------
(* The file loader on its own, with a file that takes long to parse.       *)

\* The user selects a file, the slow one included.
SelectFile ==
    /\ parseCount < MaxParses + MaxReloads
    /\ \E name \in AnyFileNames : Install(StartParse(World, name))

RaceNext ==
    \/ SelectFile
    \/ ArrayBufferResolved
    \/ ArrayBufferRejected
    \/ RaceSettled

RaceSpec == Init /\ [][RaceNext]_vars

----------------------------------------------------------------------------
(* The fade engine called with targets around the zero-crossing level,     *)
(* while the two fade duration sliders are moved.                          *)

\* Most calls of smoothSetAudioVolume in a run.
MaxEntryCalls == 4

\* Targets: 0, 0.005, 0.01, 0.02 and 0.5.
EntryTargets == {0, Unit \div 200, Unit \div 100, Unit \div 50, Unit \div 2}

\* Positions of a fade duration slider, in ms.
SliderDurations == {0, 500}

\* Time between two calls, in ms.
EntrySteps == {20, 600}

\* The 'input' listener of the fade-in slider.
FadeInSlider ==
    /\ \E value \in SliderDurations :
          /\ value # fadeInDuration
          /\ \E done \in {[World EXCEPT !.fadeInDuration = value]} :
                InstallFields(done)
    /\ UNCHANGED <<midiVars, gainVars, tripVars, lineVars>>

\* The 'input' listener of the fade-out slider.
FadeOutSlider ==
    /\ \E value \in SliderDurations :
          /\ value # fadeOutDuration
          /\ \E done \in {[World EXCEPT !.fadeOutDuration = value]} :
                InstallFields(done)
    /\ UNCHANGED <<midiVars, gainVars, tripVars, lineVars>>

\* What a call of smoothSetAudioVolume(target) made dt ms after the last
\* one leaves.
AfterSmoothSet(target, dt) ==
    smoothSetAudioVolume([World EXCEPT !.now = @ + dt], target)

\* smoothSetAudioVolume(target), some time after the previous call.
SmoothSetNearZero ==
    /\ tripCalls < MaxEntryCalls
    /\ \E target \in EntryTargets, dt \in EntrySteps :
          \E done \in {AfterSmoothSet(target, dt)} : InstallFields(done)
    /\ tripCalls' = tripCalls + 1
    /\ UNCHANGED <<midiVars, gainVars, tripPhase, tripPeak, lineVars>>

EntryNext == FadeInSlider \/ FadeOutSlider \/ SmoothSetNearZero

EntrySpec == Init /\ [][EntryNext]_vars

----------------------------------------------------------------------------
(* The sequencer with its reads of the note list on record: files are      *)
(* selected while the loops run, and every read of                         *)
(* midiNotes[currentNoteIndex] is logged with the index and the length of   *)
(* the list at the moment of the read.                                     *)

\* Most reads on record.
MaxReads == 3

\* The read a loop of the given kind made between st and done, if it made
\* one: a loop that reads a note goes to sleep on it (lines 1937-1949 and
\* 1997-2009), so a loop that started has one more sleeper, and a loop that
\* woke up has as many as before.
ReadsBetween(st, done, kind, resumed) ==
    IF done.sleepers[kind] = st.sleepers[kind] + (IF resumed THEN 0 ELSE 1)
    THEN << [index |-> done.currentNoteIndex, length |-> Len(done.midiNotes),
             resumed |-> resumed] >>
    ELSE << >>

\* The handler's result is installed and its reads are put on record.
InstallLogged(done, reads) ==
    /\ WithinBounds(done)
    /\ Len(notesRead) + Len(reads) <= MaxReads
    /\ InstallFields(done)
    /\ notesRead' = notesRead \o reads
    /\ UNCHANGED <<midiVars, gainVars, tripVars, linesRead, axRead>>

\* The preview button is clicked.
TestPlaybackToggled ==
    \E done \in {toggleTestPlayback(World)} :
        InstallLogged(done, ReadsBetween(World, done, "test", FALSE))

\* The sleep of a test-playback chain ends.
TestChainWakes ==
    /\ sleepers.test > 0
    /\ \E done \in {TestResumed(World)} :
          InstallLogged(done, ReadsBetween(World, done, "test", TRUE))

\* A line arrives from the moving bow.
BowLine ==
    \E done \in {processData(World, MovingLine)} :
        InstallLogged(done, ReadsBetween(World, done, "continuous", FALSE))

\* The sleep of a continuous loop ends.
ContinuousLoopWakes ==
    /\ sleepers.continuous > 0
    /\ \E done \in {ContinuousResumed(World)} :
          InstallLogged(done, ReadsBetween(World, done, "continuous", TRUE))

SequencerNext ==
    \/ TestPlaybackToggled
    \/ TestChainWakes
    \/ BowLine
    \/ ContinuousLoopWakes
    \/ SetPlaybackMode
    \/ ToggleImuPlayback
    \/ ParseMidiFile
    \/ ParseMidiFileAgain
    \/ ArrayBufferResolved
    \/ RaceSettled

SequencerSpec == Init /\ [][SequencerNext]_vars

----------------------------------------------------------------------------
(* The playback controls with the idle mode of the Arduino: the two        *)
(* playback buttons, the restart button and its countdown, the Bluetooth    *)
(* subscription, the end of the song, and the timers and awaits they leave. *)

\* Most handlers suspended in fadeArduinoVolumeToZero at one time.
MaxFades == 2

\* this.startIMUPlaybackOnConnect, assigned by the constructor only.
startIMUPlaybackOnConnect == FALSE

\* startIdleMode (lines 1514-1531).
startIdleMode(st) ==
    IF st.idleMode
    THEN st
    ELSE [st EXCEPT !.idleMode = TRUE, !.idleTransitionTimeout = FALSE]

\* stopIdleMode (lines 1534-1550).
stopIdleMode(st) ==
    [st EXCEPT !.idleMode = FALSE, !.idleTransitionTimeout = FALSE]

\* scheduleIdleModeTransition: the live timer is replaced by a new one.
scheduleIdleModeTransition(st) ==
    [st EXCEPT !.idleTransitionTimeout = TRUE]

\* if (currentVolume > 0) await fadeArduinoVolumeToZero(1000);
\* scheduleIdleModeTransition(): with the volume up and a characteristic
\* to write to, the handler is suspended on the first write of the fade
\* (lines 1616-1634) before it schedules the transition; with no
\* characteristic sendSpecificVolumeToArduino returns at once, and the
\* handler goes on before any other event is handled.
FadeThenSchedule(st, kind) ==
    IF st.currentVolume > 0 /\ st.characteristic
    THEN IF st.arduinoFades.plain + st.arduinoFades.ended >= MaxFades
         THEN [st EXCEPT !.ok = FALSE]
         ELSE [st EXCEPT !.arduinoFades[kind] = @ + 1]
    ELSE scheduleIdleModeTransition(st)

\* toggleImuPlayback with its calls for the idle mode (lines 2324 and
\* 2363-2368).
toggleImuPlaybackAndIdle(st) ==
    LET toggled == toggleImuPlayback(st)
    IN  IF toggled.isImuPlaying
        THEN stopIdleMode(toggled)
        ELSE FadeThenSchedule(toggled, "plain")

\* toggleTestPlayback with its calls for the idle mode (lines 2378 and
\* 2417-2422).
toggleTestPlaybackAndIdle(st) ==
    LET toggled == toggleTestPlayback(st)
    IN  IF toggled.isTestPlaying
        THEN stopIdleMode(toggled)
        ELSE FadeThenSchedule(toggled, "plain")

\* restartWithDelay up to the first second of its countdown (lines
\* 2452-2491); the delay entered is between 0 and 60 s.
restartWithDelay(st) ==
    LET stopped == StopAudio([st EXCEPT !.isTestPlaying = FALSE,
                                        !.isImuPlaying = FALSE])
    IN  [stopIdleMode(stopped) EXCEPT !.countdowns = @ + 1]

\* restartWithDelay once the countdown is over (lines 2493-2516).
RestartResumed(st) ==
    LET started == [st EXCEPT !.countdowns = @ - 1, !.isImuPlaying = TRUE]
    IN  IF started.audioSrc /\ started.playbackMode = "MP3"
        THEN play(started)
        ELSE started

\* selectCharacteristic (lines 1347-1421): the characteristic is kept and
\* its notifications start.
selectCharacteristic(st) ==
    LET selected == [st EXCEPT !.characteristic = TRUE]
        testStopped == IF selected.isTestPlaying
                       THEN StopAudio([selected EXCEPT !.isTestPlaying = FALSE])
                       ELSE selected
    IN  IF startIMUPlaybackOnConnect
        THEN LET started == [testStopped EXCEPT !.isImuPlaying = TRUE]
             IN  IF started.audioSrc THEN play(started) ELSE started
        ELSE startIdleMode(testStopped)

\* The 'ended' listener from its test of isTestPlaying on (lines 200-211).
EndedTestPlayback(st) ==
    IF st.isTestPlaying
    THEN FadeThenSchedule([st EXCEPT !.isTestPlaying = FALSE], "plain")
    ELSE st

\* The 'ended' listener (lines 184-212); audioElement.loop is false, and
\* the element that has ended is paused.
AudioEndedListener(st) ==
    LET over == [st EXCEPT !.audioPaused = TRUE]
        imuOff == [over EXCEPT !.isImuPlaying = FALSE]
    IN  IF ~over.isImuPlaying
        THEN EndedTestPlayback(over)
        ELSE IF imuOff.currentVolume > 0
             THEN IF imuOff.characteristic
                  THEN FadeThenSchedule(imuOff, "ended")
                  ELSE EndedTestPlayback(scheduleIdleModeTransition(imuOff))
             ELSE EndedTestPlayback(scheduleIdleModeTransition(imuOff))

\* A handler suspended in fadeArduinoVolumeToZero goes on.
FadeResumed(st, kind) ==
    LET scheduled == scheduleIdleModeTransition(
                         [st EXCEPT !.arduinoFades[kind] = @ - 1])
    IN  IF kind = "ended" THEN EndedTestPlayback(scheduled) ELSE scheduled

\* The IMU playback button is clicked.
ImuPlaybackClicked ==
    \E done \in {toggleImuPlaybackAndIdle(World)} :
        WithinBounds(done) /\ Install(done)

\* The preview button is clicked.
TestPlaybackClicked ==
    \E done \in {toggleTestPlaybackAndIdle(World)} :
        WithinBounds(done) /\ Install(done)

\* The restart button is clicked; it is disabled while a restart runs.
RestartClicked ==
    /\ countdowns = 0
    /\ \E done \in {restartWithDelay(World)} : Install(done)

\* The countdown of a restart is over.
CountdownEnds ==
    /\ countdowns > 0
    /\ \E done \in {RestartResumed(World)} : Install(done)

\* A characteristic of the bow is selected and its notifications start.
CharacteristicSelected ==
    \E done \in {selectCharacteristic(World)} : Install(done)

\* The song reaches its end.
AudioEnded ==
    /\ audioSrc /\ ~audioPaused
    /\ \E done \in {AudioEndedListener(World)} :
          WithinBounds(done) /\ Install(done)

\* fadeArduinoVolumeToZero is over for one of the handlers waiting for it.
ArduinoFadeDone ==
    \E kind \in {"plain", "ended"} :
        /\ arduinoFades[kind] > 0
        /\ \E done \in {FadeResumed(World, kind)} :
              WithinBounds(done) /\ Install(done)

\* The 5 s timer of scheduleIdleModeTransition expires (lines 1604-1606).
IdleTransitionFires ==
    /\ idleTransitionTimeout
    /\ \E done \in {startIdleMode([World EXCEPT !.idleTransitionTimeout = FALSE])} :
          Install(done)

ControlNext ==
    \/ ImuPlaybackClicked
    \/ TestPlaybackClicked
    \/ RestartClicked
    \/ CountdownEnds
    \/ CharacteristicSelected
    \/ AudioEnded
    \/ ArduinoFadeDone
    \/ IdleTransitionFires
    \/ SetPlaybackMode
    \/ LoadTrack
    \/ TrackLoaded

ControlSpec == Init /\ [][ControlNext]_vars

----------------------------------------------------------------------------
(* The preview: the two playback buttons, the restart button and the bow,  *)
(* with a MIDI file loaded or loading.                                      *)

PreviewNext ==
    \/ ProcessData
    \/ SetPlaybackMode
    \/ ToggleImuPlayback
    \/ ToggleTestPlayback
    \/ RestartClicked
    \/ CountdownEnds
    \/ ContinuousWakes
    \/ TestWakes
    \/ ParseMidiFile
    \/ ArrayBufferResolved
    \/ RaceSettled

PreviewSpec == Init /\ [][PreviewNext]_vars
----------------------------------------------------------------------------
(* Claims about the parser.                                                *)

Notes == parseResult.notes

NoteIndices == 1..Len(Notes)

\* The header-level violations C1 lists, read off the buffer itself.
HeaderInvalid(buf) ==
    \/ Len(buf) < 14
    \/ <<buf[1], buf[2], buf[3], buf[4]>> # <<77, 84, 104, 100>>
    \/ buf[11] * 256 + buf[12] > 1000

\* C1: parseMidiBytes never raises, and returns the empty note list when the
\* buffer is empty, shorter than 14 bytes, does not start with 'MThd' or
\* declares more than 1000 tracks.
C1_HeaderInvalidGivesEmpty ==
    parsePc = "done" =>
        /\ ~parseResult.raised
        /\ HeaderInvalid(bytes) => Notes = <<>>

\* C1 witness: a returned call on a buffer that declares more than 1000
\* tracks and still holds a complete track.
C1_Witness ==
    /\ parsePc = "done"
    /\ Len(bytes) > 30
    /\ <<bytes[1], bytes[2], bytes[3], bytes[4]>> = <<77, 84, 104, 100>>
    /\ bytes[11] * 256 + bytes[12] > 1000

\* C2: on a truncated prefix of a well-formed file the parser returns, and
\* returns no more notes than it returns on the whole file.
C2_PrefixNoLonger ==
    (parsePc = "done" /\ IsPrefix(bytes, FileBytes(file))) =>
        /\ ~parseResult.raised
        /\ Len(Notes) <= Len(parseMidiBytes(FileBytes(file)).notes)

\* C2 witness: a proper prefix that still yields a note, of a file that
\* yields more.
C2_Witness ==
    /\ parsePc = "done"
    /\ IsPrefix(bytes, FileBytes(file))
    /\ Len(bytes) < Len(FileBytes(file))
    /\ Len(Notes) = 1
    /\ Len(parseMidiBytes(FileBytes(file)).notes) = 2

\* A single track holding one Note-On (velocity > 0) and then its closing
\* event and nothing else, in a file whose division is a positive
\* ticks-per-quarter value: no Set Tempo, so the default tempo is in effect.
IsOnThenClose(f) ==
    /\ f.division > 0
    /\ Len(f.tracks) = 1
    /\ Len(f.tracks[1]) = 2
    /\ f.tracks[1][1].kind = "on" /\ f.tracks[1][1].velocity > 0
    /\ f.tracks[1][2].kind \in {"on", "off"}
    /\ f.tracks[1][2].kind = "on" => f.tracks[1][2].velocity = 0
    /\ f.tracks[1][2].pitch = f.tracks[1][1].pitch

\* max(100, floor((b - a) * tempo / (ticksPerQuarter * 1000))) with the
\* default tempo, b - a being the delta time of the closing event.
ExactDuration(f) ==
    LET ms == (f.tracks[1][2].delta * defaultTempo) \div (f.division * 1000)
    IN  IF ms > 100 THEN ms ELSE 100

\* C3: a Note-On (velocity v > 0) for pitch p at tick a closed at tick b
\* yields exactly the note {p, v, max(100, floor((b-a)*tempo/(tpq*1000)))}.
C3_NoteDurationExact ==
    (parsePc = "done" /\ bytes = FileBytes(file) /\ IsOnThenClose(file)) =>
        Notes = << [pitch |-> file.tracks[1][1].pitch,
                    velocity |-> file.tracks[1][1].velocity,
                    duration |-> JsNum(ExactDuration(file))] >>

\* C4: every returned note has pitch and velocity in 0..127.
C4_PitchVelocityRange ==
    parsePc = "done" =>
        \A i \in NoteIndices :
            Notes[i].pitch \in 0..127 /\ Notes[i].velocity \in 0..127

\* C5: every returned note has an integer duration of at least 100 ms.
C5_DurationAtLeast100 ==
    parsePc = "done" =>
        \A i \in NoteIndices :
            Notes[i].duration.cls = "finite" /\ Notes[i].duration.val >= 100

----------------------------------------------------------------------------
(* Claims about the loader and the sequencer.                              *)

\* The scale of loadFallbackScale, as the specification of the player
\* lists it: G major from G4, 500 ms a note, the last one 1000 ms.
FallbackScale ==
    << [pitch |-> 67, velocity |-> 80, duration |-> JsNum(500)],
       [pitch |-> 69, velocity |-> 80, duration |-> JsNum(500)],
       [pitch |-> 71, velocity |-> 80, duration |-> JsNum(500)],
       [pitch |-> 72, velocity |-> 80, duration |-> JsNum(500)],
       [pitch |-> 74, velocity |-> 80, duration |-> JsNum(500)],
       [pitch |-> 76, velocity |-> 80, duration |-> JsNum(500)],
       [pitch |-> 78, velocity |-> 80, duration |-> JsNum(500)],
       [pitch |-> 79, velocity |-> 80, duration |-> JsNum(1000)] >>

\* The invocation p of parseMidiFile runs to its end in this step.
Completes(p) == p \in parses /\ \A q \in parses' : q.id # p.id

\* C6: when an invocation of parseMidiFile completes (the parse returned
\* notes, returned none, or reading the file failed), midiNotes is not
\* empty, it is the parsed notes of that file or the 8-note fallback scale,
\* and currentNoteIndex is 0.
C6_LoadLeavesNotes ==
    [][\A p \in parses :
          Completes(p) =>
              /\ midiNotes' # <<>>
              /\ midiNotes' \in {ParseResultOf(p.name).notes,
                                 FallbackScale}
              /\ currentNoteIndex' = 0]_vars

\* C6 witness: two files were selected and both invocations have run to
\* their end, the later one on a file without notes or on a failed read,
\* while test playback runs.
C6_Witness ==
    /\ parseCount = MaxParses + MaxReloads
    /\ parses = {}
    /\ midiNotes = FallbackScale
    /\ currentNoteIndex = 0
    /\ isTestPlaying
    /\ sleepers.test > 0

\* The motion-gated loop is playing.
MotionGatedPlaying ==
    playbackMode = "MIDI" /\ isImuPlaying /\ isPlayingMidiSequence

\* A sample arrives that brings the motion below the threshold.
MotionDrops ==
    \E parts \in Lines :
        /\ Len(parts) >= 6
        /\ ~IsMoving(MeasureMotion(World, FiniteSample(ImuData(parts))))
        /\ Install(processData(World, parts))

\* The mode is switched to MP3.
SwitchToMp3 == Install(setPlaybackMode(World, "MP3"))

\* A continuous loop wakes after playback was stopped and not started again.
StoppedLoopWakes ==
    /\ sleepers.continuous > 0
    /\ ~isPlayingMidiSequence
    /\ Install(ContinuousResumed(World))

\* C7: when the motion-gated loop is playing and the motion drops below the
\* threshold or the mode is switched to MP3, the handler leaves the voice
\* stopped, currentMidiSource null and the stop timer cleared; and a loop
\* that wakes while playback is still stopped starts no note and ends.
C7_StopSilencesVoice ==
    [][ /\ (MotionGatedPlaying /\ (MotionDrops \/ SwitchToMp3)) =>
              /\ ~isPlayingMidiSequence'
              /\ currentMidiSource' = 0
              /\ noteStopTimeout' = 0
              /\ currentMidiSource \notin voices'
              /\ noteStopTimeout \notin timers'
        /\ StoppedLoopWakes =>
              /\ voices' = voices
              /\ timers' = timers
              /\ currentMidiSource' = currentMidiSource
              /\ sleepers'.continuous = sleepers.continuous - 1
              /\ sleepers'.test = sleepers.test ]_vars

\* C7 witness: the motion has dropped while a note of the loop was sounding;
\* the loop is still asleep, nothing sounds and no stop timer is left.
C7_Witness ==
    /\ playbackMode = "MIDI" /\ isImuPlaying
    /\ ~IsMoving(World)
    /\ ~isPlayingMidiSequence
    /\ sleepers.continuous > 0
    /\ currentMidiSource = 0 /\ noteStopTimeout = 0
    /\ voices = {} /\ timers = {}
    /\ violinSampleBuffer

\* The suspended loops that go on to play a note if they wake now.
PendingAdvances ==
    (IF MotionGatedPlaying /\ midiNotes # <<>> THEN sleepers.continuous ELSE 0)
    + (IF isTestPlaying /\ midiNotes # <<>> THEN sleepers.test ELSE 0)

\* C8: at most one sequencer loop is waiting on a note-duration sleep that
\* goes on to trigger another note.
C8_AtMostOnePendingAdvance == PendingAdvances <= 1

\* C9: at most one voice is started and not yet stopped.
C9_Monophonic == Cardinality(voices) <= 1

----------------------------------------------------------------------------
(* Claims about the fade engine.                                           *)

\* The mode is switched.
SwitchMode ==
    \E mode \in Modes :
        mode # playbackMode /\ Install(setPlaybackMode(World, mode))

\* C10: switching the playback mode, toggling IMU playback off and toggling
\* test playback each leave the fade engine idle: isFading is false when
\* the handler returns.
C10_ControlsCancelFade ==
    [][(SwitchMode \/ (isImuPlaying /\ ToggleImuPlayback) \/ ToggleTestPlayback)
           => ~isFading']_vars

----------------------------------------------------------------------------
(* Claims about the motion-driven MP3 path.                                *)

\* updateAudioVolume takes its MP3 branch on the next accepted sample.
Mp3Controlled ==
    playbackMode = "MP3" /\ ~isTestPlaying /\ isImuPlaying /\ audioSrc

\* An accepted sample is processed on the MP3 branch.
Mp3Sample ==
    /\ Mp3Controlled
    /\ \E parts \in FadeLines, dt \in TimeSteps :
          /\ Len(parts) >= 6
          /\ Install(processData([World EXCEPT !.now = @ + dt], parts))

\* C11: on the motion-driven MP3 path, a sample that hands a non-zero
\* target to the fade engine, or that raises the emitted volume to 0.01 or
\* more, leaves the element playing; and a sample pauses the element only
\* when the smoothed volume it emitted is below 0.01, and leaves the volume
\* at 0.
C11_PlayBeforeRisePauseAfterFall ==
    [][Mp3Sample =>
          /\ RequestedVolume(motionSpeed', motionThreshold, maxVolume) > 0
                => ~audioPaused'
          /\ (currentVolume' > currentVolume /\ currentVolume' >= Unit \div 100)
                => ~audioPaused'
          /\ (~audioPaused /\ audioPaused') =>
                (smoothedVolume' < Unit \div 100 /\ currentVolume' = 0)]_vars

\* C11 witness: the element played at a volume above 0, the bow slowed down
\* until the pause policy applied, and a sample paused the element at
\* volume 0.
C11_Witness ==
    /\ Mp3Controlled
    /\ trackLoads = 0
    /\ audioPaused
    /\ ShouldPause(motionSpeed, motionThreshold, maxVolume)
    /\ Len(motionHistory) > 1
    /\ motionHistory[1] > 0
    /\ \E i \in 1..Len(volumeHistory) : volumeHistory[i] > 0
    /\ currentVolume = 0

----------------------------------------------------------------------------
(* Claims about the fade engine.                                           *)

\* The volume emitted is within 0.01 of 0.
Settled == currentVolume < Unit \div 100

\* C12: in a round trip from volume 0, once the target is held at 0 the
\* calls of smoothSetAudioVolume(0) eventually emit a volume within 0.01 of
\* 0, and every later call keeps emitting one.
C12_RoundTripSettles ==
    (tripPhase = "down") ~> [](tripPhase = "down" /\ Settled)

\* C12 witness: the target was held at V until the volume was audible, then
\* at 0 until the volume settled, and calls with target 0 went on after it.
C12_Witness ==
    /\ tripPhase = "down"
    /\ tripCalls = MaxDownCalls
    /\ Settled
    /\ \E i \in 1..Len(volumeHistory) : volumeHistory[i] = 0
    /\ currentFadeDirection = "out"

\* C13: whatever volumes the two setters are handed, the emitted volume is
\* never below 0 and never above the largest volume requested so far (the
\* volume is 0 at the start); in a round trip 0 -> V -> 0 that is [0, V].
C13_NoOvershoot ==
    tripPhase = "free" =>
        /\ 0 <= currentVolume /\ currentVolume <= tripPeak
        /\ 0 <= smoothedVolume /\ smoothedVolume <= tripPeak

\* C13 witness: the target went to 0.5 and back to 0, and the fade-out is
\* under way with the emitted volume strictly between 0 and 0.5.
C13_Witness ==
    /\ tripPhase = "free"
    /\ tripPeak = Unit \div 2
    /\ isFading /\ currentFadeDirection = "out" /\ fadeTargetVolume = 0
    /\ 0 < currentVolume /\ currentVolume < tripPeak
    /\ Len(volumeHistory) > 1

\* C14: the volume last delivered to the audio sink is at least 0 and at
\* most 1 in every reachable state, whatever volumes the setters are handed.
C14_VolumeInUnitRange == 0 <= currentVolume /\ currentVolume <= Unit

\* C14 witness: a volume above 1 was requested, smoothSetAudioVolume has
\* run, and the sink is at exactly 1.
C14_Witness ==
    /\ tripPhase = "free"
    /\ tripPeak = Unit
    /\ Len(volumeHistory) > 0
    /\ currentVolume = Unit

----------------------------------------------------------------------------
(* Claims about the motion-to-gain mapping.                                *)

\* The normalized speed of an evaluated input is at or above its threshold.
AtOrAbove(speed) == Normalized(speed) >= gainInput.threshold

\* C15: for a fixed threshold and maximum, the target of the slower of two
\* motion speeds is never above the target of the faster one, and the
\* target is exactly the maximum whenever the normalized speed is at or
\* above the threshold, threshold 0 included.
C15_TargetGainMonotone ==
    gainOutput.done =>
        /\ gainOutput.lo <= gainOutput.hi
        /\ AtOrAbove(gainInput.lo) => gainOutput.lo = gainInput.maxGain
        /\ AtOrAbove(gainInput.hi) => gainOutput.hi = gainInput.maxGain

\* C15 witness: with threshold 0 a bow at rest and a moving bow both get the
\* maximum 0.5.
C15_Witness ==
    /\ gainOutput.done
    /\ gainInput.threshold = 0
    /\ gainInput.lo = 0 /\ gainInput.hi = 25 * Unit
    /\ gainInput.maxGain = Unit \div 2
    /\ gainOutput.lo = Unit \div 2 /\ gainOutput.hi = Unit \div 2

\* C16: below the threshold the pause policy applies exactly when the eased
\* target is under 5% of the maximum; the volume requested of the fade
\* engine is then 0 and otherwise the eased target. A bow at rest with
\* threshold 0.15 and maximum 1.0 has target 0 and is not to play.
C16_PauseBelowFivePercent ==
    (gainOutput.done /\ ~AtOrAbove(gainInput.lo)) =>
        /\ gainOutput.pause <=> (20 * gainOutput.lo < gainInput.maxGain)
        /\ gainOutput.requested =
              IF 20 * gainOutput.lo < gainInput.maxGain THEN 0 ELSE gainOutput.lo
        /\ (/\ gainInput.lo = 0
            /\ gainInput.threshold = (15 * Unit) \div 100
            /\ gainInput.maxGain = Unit)
              => (gainOutput.lo = 0 /\ gainOutput.pause)

\* C16 witness: the bow at rest, threshold 0.15, maximum 1.0.
C16_Witness ==
    /\ gainOutput.done
    /\ gainInput.lo = 0
    /\ gainInput.threshold = (15 * Unit) \div 100
    /\ gainInput.maxGain = Unit
    /\ gainOutput.pause
    /\ gainOutput.requested = 0

----------------------------------------------------------------------------
(* Claims about the lines processData reads.                               *)

\* The line read last.
LastLine == linesRead[Len(linesRead)]

\* The six fields of the stored sample, in the order of the line.
StoredFields == <<imuData.ax, imuData.ay, imuData.az,
                  imuData.gx, imuData.gy, imuData.gz>>

\* C17: after a line of at least six fields, whatever their text, the
\* stored sample has six finite fields, and every field whose text is no
\* number is stored as 0.
C17_StoredSampleFinite ==
    (linesRead # <<>> /\ Len(LastLine) >= 6) =>
        /\ IsFiniteSample(imuData)
        /\ \A i \in 1..6 :
              LastLine[i].text # "number" => StoredFields[i] = JsNum(0)

\* C18: reading a line of fewer than six fields leaves the stored sample,
\* the motion window, the motion speed, the bow direction, the fade state,
\* the volume history and the emitted volume as they were.
C18_ShortLineDiscarded ==
    [][(linesRead' # linesRead /\ Len(LastLine') < 6) =>
          UNCHANGED <<imuData, motionHistory, motionSpeed, lastBowDirection,
                      bowDirection, isFading, fadeStartTime, fadeStartVolume,
                      fadeTargetVolume, currentFadeDirection, volumeHistory,
                      smoothedVolume, currentVolume, audioPaused>>]_vars

\* C18 witness: a fast sample started a fade-in on a loaded track, and the
\* line read after it was short.
C18_Witness ==
    /\ Len(linesRead) = 2
    /\ Len(linesRead[1]) >= 6
    /\ Len(LastLine) < 6
    /\ imuData.gx = JsNum(500)
    /\ motionHistory # <<>> /\ motionSpeed > 0
    /\ isFading /\ currentFadeDirection = "in"
    /\ volumeHistory # <<>>

\* The lines read so far that had at least six fields.
IsAccepted(parts) == Len(parts) >= 6

AcceptedLines == SelectSeq(linesRead, IsAccepted)

\* The motion magnitude of a line of numbers: 0.7 of the gyroscope's
\* magnitude plus 0.3 of the accelerometer's.
MotionOf(parts) ==
    LET sample == FiniteSample(ImuData(parts))
    IN  Magnitude(sample.gx, sample.gy, sample.gz) * ((Unit * 7) \div 10)
            + Magnitude(sample.ax, sample.ay, sample.az) * ((Unit * 3) \div 10)

\* The magnitudes of the last n accepted lines, oldest first.
LastMagnitudes(n) ==
    [i \in 1..n |-> MotionOf(AcceptedLines[Len(AcceptedLines) - n + i])]

\* C19: after k >= 1 accepted samples the motion window holds the
\* magnitudes of the last min(k, 5) of them, oldest first, and the motion
\* speed is the mean of the window.
C19_WindowHoldsLastMagnitudes ==
    Len(AcceptedLines) >= 1 =>
        /\ motionHistory = LastMagnitudes(Min(Len(AcceptedLines), 5))
        /\ motionSpeed = SeqSum(motionHistory) \div Len(motionHistory)

\* C19 witness: seven samples were accepted, so two magnitudes have left
\* the window, and the window holds different magnitudes.
C19_Witness ==
    /\ Len(AcceptedLines) = 7
    /\ Len(motionHistory) = 5
    /\ MotionOf(AcceptedLines[1]) # MotionOf(AcceptedLines[3])
    /\ motionHistory[1] = MotionOf(AcceptedLines[3])
    /\ motionHistory[1] # motionHistory[5]
    /\ motionSpeed > 0

----------------------------------------------------------------------------
(* Claims about the volume history.                                        *)

\* The arithmetic mean of a non-empty history.
MeanOf(history) == SeqSum(history) \div Len(history)

\* C20: the volume history never holds more than volumeHistorySize entries;
\* after every call of smoothSetAudioVolume it holds at least one entry, and
\* the volume the call emitted is the mean of the entries.
C20_VolumeHistoryMean ==
    /\ [](Len(volumeHistory) <= volumeHistorySize)
    /\ [][SmoothSetVolume =>
              /\ Len(volumeHistory') >= 1
              /\ smoothedVolume' = MeanOf(volumeHistory')
              /\ currentVolume' = MeanOf(volumeHistory')]_vars

\* C20 witness: calls 20 ms apart, the first of which started the only
\* fade, so that more than five values were pushed and the oldest shifted
\* out.
C20_Witness ==
    /\ tripPhase = "free"
    /\ tripCalls = MaxVolumeCalls /\ now = 20 * MaxVolumeCalls
    /\ fadeStartTime = 20
    /\ Len(volumeHistory) = 5
    /\ volumeHistory[1] # volumeHistory[5]
    /\ currentVolume = MeanOf(volumeHistory)

----------------------------------------------------------------------------
(* Claims about the bow direction.                                         *)

\* The stroke an acceleration shows: 1 up, -1 down, 0 inside the threshold.
StrokeOf(ax) == IF ax > 2 THEN 1 ELSE IF ax < -2 THEN -1 ELSE 0

\* The accelerations read so far that showed a stroke.
IsStroke(ax) == StrokeOf(ax) # 0

Strokes == SelectSeq(axRead, IsStroke)

\* How many strokes were opposite to the stroke before them.
Reversals ==
    Cardinality({i \in 2..Len(Strokes) :
                    StrokeOf(Strokes[i]) # StrokeOf(Strokes[i - 1])})

\* C21: after any sequence of samples the stored direction is that of the
\* last sample beyond the threshold (none before the first), and the
\* direction-change signal has fired once for every such sample whose sign
\* was opposite to the one before it; ax = 0.3, 0.3, -0.3 gives Up, Up,
\* Down and one signal, at the third sample.
C21_BowHysteresis ==
    /\ lastBowDirection =
          IF Strokes = <<>> THEN 0 ELSE StrokeOf(Strokes[Len(Strokes)])
    /\ bowDirection = CASE lastBowDirection = 1 -> "Up-Bow"
                         [] lastBowDirection = -1 -> "Down-Bow"
                         [] OTHER -> "Unknown"
    /\ directionChanges = Reversals
    /\ axRead \in {<<3>>, <<3, 3>>} =>
          (bowDirection = "Up-Bow" /\ directionChanges = 0)
    /\ axRead = <<3, 3, -3>> =>
          (bowDirection = "Down-Bow" /\ directionChanges = 1)

\* C21 witness: 0.3, 0.3, -0.3 and then two samples at the threshold.
C21_Witness ==
    /\ axRead = <<3, 3, -3, 2, -2>>
    /\ bowDirection = "Down-Bow"
    /\ directionChanges = 1


----------------------------------------------------------------------------
(* Claims about the file loader's timeout.                                 *)

\* The wall-clock budget of a parse, in ms (line 2569).
ParseBudget == 10000

\* C22: an invocation whose parse ran for longer than the 10 s budget ends
\* with the fallback scale in midiNotes, not with the parsed notes.
C22_SlowParseFallsBack ==
    [][\A p \in parses :
          (Completes(p) /\ p.stage = "racing" /\ p.took > ParseBudget) =>
              midiNotes' = FallbackScale]_vars

----------------------------------------------------------------------------
(* Claims about the parser's header fields and track table.                *)

\* The division field of an accepted header, as the 16 bits it is.
DivisionField(buf) == At(buf, 12) * 256 + At(buf, 13)

\* The notes parseMidiBytes returns on an accepted header when every
\* duration is converted with tpq ticks per quarter.
NotesWithTicksPerQuarter(buf, tpq) ==
    TracksLoop(buf, 0, readInt16(buf, 10), 14, tpq, <<>>)

\* C23: when the high bit of the header's division field is set, the
\* returned notes are those computed with 480 ticks per quarter; otherwise
\* they are those computed with the division value itself.
C23_SmpteDivisionUses480 ==
    (parsePc = "done" /\ ~HeaderRejected(bytes)) =>
        Notes = NotesWithTicksPerQuarter(bytes,
                    IF DivisionField(bytes) >= 32768 THEN 480
                    ELSE DivisionField(bytes))

\* The second track's declared end, start + 8 + L with L the unsigned value
\* of its length field, lies beyond the end of the buffer.  A field whose
\* first byte has the high bit set is at least 2^31.
DeclaredEndBeyond(buf, start) ==
    \/ At(buf, start + 4) >= 128
    \/ start + 8 + readInt32(buf, start + 4) > Len(buf)

\* The notes of the file's first track alone.
FirstTrackNotes(f) ==
    parseMidiBytes(FileBytes([f EXCEPT !.tracks = <<f.tracks[1]>>])).notes

NonDecreasing(s) == \A i \in 1..(Len(s) - 1) : s[i] <= s[i + 1]

\* C24: when the declared end of the second track lies beyond the end of
\* the buffer, the parser returns exactly the notes of the first track and
\* its track offset never moves backwards.
C24_OverlongTrackAbandoned ==
    (parsePc = "done" /\ DeclaredEndBeyond(bytes, SecondTrackStart(file))) =>
        /\ Notes = FirstTrackNotes(file)
        /\ NonDecreasing(TrackOffsets(bytes, 0, readInt16(bytes, 10), 14, <<14>>))

----------------------------------------------------------------------------
(* Claims about the events of a track.                                     *)

\* The events from index idx on with every status byte written out: an
\* event of the file that has none gets the last status byte written before
\* it in the same track.
RECURSIVE ExplicitEventsBytes(_, _, _, _)
ExplicitEventsBytes(events, idx, omitted, last) ==
    IF idx > Len(events) THEN <<>>
    ELSE LET status == IF idx \in omitted THEN last ELSE StatusOf(events[idx])
         IN  VLQ(events[idx].delta) \o <<status>> \o DataOf(events[idx])
             \o ExplicitEventsBytes(events, idx + 1, omitted, status)

\* A track whose first event has no status byte counts as a track without
\* events.
ExplicitTrackBytes(events, omitted) ==
    LET body == (IF 1 \in omitted THEN <<>>
                 ELSE ExplicitEventsBytes(events, 1, omitted, 0))
                \o EndOfTrackBytes
    IN  <<77, 84, 114, 107>> \o U32(Len(body)) \o body

ExplicitFileBytes(f) ==
    <<77, 84, 104, 100>> \o U32(6) \o U16(IF Len(f.tracks) > 1 THEN 1 ELSE 0)
    \o U16(Len(f.tracks)) \o U16(f.division)
    \o ExplicitTrackBytes(f.tracks[1], f.omitted[1])
    \o (IF Len(f.tracks) > 1 THEN ExplicitTrackBytes(f.tracks[2], f.omitted[2])
        ELSE <<>>)

\* C25: an event without status byte is read with the last status byte
\* written before it in the same track, its first byte being its first data
\* byte; a track whose first event has no status byte stops there, whatever
\* the track before it ended with, and the notes of the other tracks are
\* returned.  So the parser returns on the file what it returns on the same
\* file with those status bytes written out.
C25_RunningStatus ==
    parsePc = "done" =>
        /\ ~parseResult.raised
        /\ Notes = parseMidiBytes(ExplicitFileBytes(file)).notes

\* C25 witness: the closing event of the first track has no status byte and
\* closes the note; the second track starts without a status byte and gives
\* nothing, though the first track ended with one.
C25_Witness ==
    /\ parsePc = "done"
    /\ file.tracks = << <<NoteOn(0, 69, 80), NoteOn(246, 69, 0)>>,
                        <<NoteOn(0, 71, 90), NoteOn(240, 71, 0)>> >>
    /\ file.omitted = <<{2}, {1}>>
    /\ Len(Notes) = 1
    /\ Notes[1].pitch = 69 /\ Notes[1].velocity = 80

\* A closing event: Note-Off, or Note-On with velocity 0.
IsClosing(ev) == ev.kind = "off" \/ (ev.kind = "on" /\ ev.velocity = 0)

\* The notes a track's events give when read from index idx on, at tick
\* `tick`, with `open` mapping each pitch that has an open note to the
\* velocity and tick of its most recent Note-On and `tempo` the tempo in
\* effect: a closing event for an open pitch emits that note and closes it,
\* any other closing event emits nothing, a Note-On replaces the open note
\* of its pitch, and what is open at the end is dropped.
RECURSIVE PairedNotes(_, _, _, _, _, _)
PairedNotes(events, idx, tick, open, tempo, tpq) ==
    IF idx > Len(events) THEN <<>>
    ELSE LET ev == events[idx]
             at == tick + ev.delta
         IN  IF ev.kind = "tempo"
             THEN PairedNotes(events, idx + 1, at, open, ev.tempo, tpq)
             ELSE IF IsClosing(ev)
             THEN IF ev.pitch \in DOMAIN open
                  THEN << [pitch |-> ev.pitch, velocity |-> open[ev.pitch].velocity,
                           duration |-> ticksToMilliseconds(at - open[ev.pitch].tick,
                                                            tpq, tempo)] >>
                       \o PairedNotes(events, idx + 1, at,
                                      [p \in DOMAIN open \ {ev.pitch} |-> open[p]],
                                      tempo, tpq)
                  ELSE PairedNotes(events, idx + 1, at, open, tempo, tpq)
             ELSE PairedNotes(events, idx + 1, at,
                              [p \in DOMAIN open \cup {ev.pitch} |->
                                  IF p = ev.pitch
                                  THEN [velocity |-> ev.velocity, tick |-> at]
                                  ELSE open[p]],
                              tempo, tpq)

\* The notes of a track read on its own, from tick 0 at the default tempo.
TrackNotes(f, t) == PairedNotes(f.tracks[t], 1, 0, <<>>, defaultTempo, f.division)

\* The notes of all tracks of a file, in track order.
FileNotes(f) ==
    TrackNotes(f, 1) \o (IF Len(f.tracks) > 1 THEN TrackNotes(f, 2) ELSE <<>>)

\* The first track has no tempo event.
FirstTrackPlain(f) == \A i \in 1..Len(f.tracks[1]) : f.tracks[1][i].kind # "tempo"

\* C26: within a track a note is emitted exactly when a closing event
\* arrives for a pitch with an open note, with the velocity and start tick
\* of the most recent Note-On of that pitch; other closing events and notes
\* left open emit nothing.
C26_NotePairing ==
    (parsePc = "done" /\ Len(file.tracks) = 1 /\ FirstTrackPlain(file)) =>
        /\ ~parseResult.raised
        /\ Notes = TrackNotes(file, 1)

\* C26 witness: a second Note-On for the open pitch 69, 120 ticks after the
\* first, then its Note-Off 240 ticks later: one note, with the second
\* velocity and 250 ms long.
C26_Witness ==
    /\ parsePc = "done"
    /\ file.tracks = << <<NoteOn(0, 69, 80), NoteOn(120, 69, 90), NoteOff(240, 69)>> >>
    /\ Notes = << [pitch |-> 69, velocity |-> 90, duration |-> JsNum(250)] >>

----------------------------------------------------------------------------
(* Claims about the safety limits of the event loop.                       *)

\* What the parser returns on the two notes 69 and 72, and on the three
\* notes 69, 71 and 72, in files of ordinary size.
NotesWithout71 ==
    parseMidiBytes(FileBytes([division |-> 480,
        tracks |-> << <<NoteOn(0, 69, 80), NoteOff(240, 69)>>,
                      <<NoteOn(0, 72, 60), NoteOff(480, 72)>> >>])).notes
NotesWith71 ==
    parseMidiBytes(FileBytes([division |-> 480,
        tracks |-> << <<NoteOn(0, 69, 80), NoteOff(240, 69),
                        NoteOn(0, 71, 90), NoteOff(240, 71)>>,
                      <<NoteOn(0, 72, 60), NoteOff(480, 72)>> >>])).notes

\* An iteration of the event loop that does not break.
EventRead ==
    parsePc = "events" /\ parsePc' = "events" /\ parseCursor'.ctx.running

----------------------------------------------------------------------------
(* Claims about the tempo.                                                 *)

\* C28: the notes of a file are the notes of its tracks, each track read on
\* its own starting at 500000 microseconds per quarter, a Set Tempo event
\* changing the duration of the notes closed after it in its own track and
\* of no note of another track.
C28_TempoTrackLocal ==
    parsePc = "done" =>
        /\ ~parseResult.raised
        /\ Notes = FileNotes(file)

\* C28 witness: 240 ticks last 300 ms after the tempo change of the first
\* track and 250 ms in the second track, which has none.
C28_Witness ==
    /\ parsePc = "done"
    /\ file.tracks = << <<SetTempo(0, 600000), NoteOn(0, 69, 80), NoteOff(240, 69)>>,
                        <<NoteOn(0, 71, 90), NoteOn(240, 71, 0)>> >>
    /\ Notes = << [pitch |-> 69, velocity |-> 80, duration |-> JsNum(300)],
                  [pitch |-> 71, velocity |-> 90, duration |-> JsNum(250)] >>

----------------------------------------------------------------------------
(* Claims about the start of a fade.                                       *)

\* The level a volume is compared with to tell silence from sound (0.01).
ZeroLevel == Unit \div 100

\* The step is a call smoothSetAudioVolume(target) made dt ms after the
\* last one while no fade was active.
IdleCall(target, dt) ==
    /\ ~isFading
    /\ tripCalls' = tripCalls + 1
    /\ World' = AfterSmoothSet(target, dt)

\* The history after v was pushed on it, without a clear.
Pushed(v) ==
    LET longer == Append(volumeHistory, v)
    IN  IF Len(longer) > volumeHistorySize THEN Tail(longer) ELSE longer

\* C29: a call made while no fade is active leaves a fade active only if
\* the volume was below 0.01 and the target is above it, the direction then
\* being "in", or the volume was above 0.01 and the target is below it, the
\* direction then being "out"; when the volume and the target are both
\* above 0.01, or both below, no fade is active after the call and the value
\* pushed on the history is the target.
C29_FadeOnlyOnZeroCrossing ==
    [][\A target \in EntryTargets, dt \in EntrySteps :
          IdleCall(target, dt) =>
              /\ isFading' =>
                    \/ /\ currentVolume < ZeroLevel /\ target > ZeroLevel
                       /\ currentFadeDirection' = "in"
                    \/ /\ currentVolume > ZeroLevel /\ target < ZeroLevel
                       /\ currentFadeDirection' = "out"
              /\ ( \/ currentVolume > ZeroLevel /\ target > ZeroLevel
                   \/ currentVolume < ZeroLevel /\ target < ZeroLevel ) =>
                    /\ ~isFading'
                    /\ volumeHistory' = Pushed(target)]_vars

\* C29 witness: from silence the first call, with target 0.5, has left a
\* fade-in active; no slider was moved.
C29_Witness ==
    /\ tripCalls = 1
    /\ isFading
    /\ currentFadeDirection = "in"
    /\ fadeStartVolume = 0
    /\ fadeTargetVolume = Unit \div 2
    /\ fadeInDuration = defaultFadeInDuration

\* C30: a call made while no fade is active that crosses 0.01 upwards with
\* fadeInDuration 0, or downwards with fadeOutDuration 0, leaves no fade
\* active and pushes the target on the history, which is not cleared.
C30_ZeroDurationJumps ==
    [][\A target \in EntryTargets, dt \in EntrySteps :
          ( /\ IdleCall(target, dt)
            /\ \/ /\ currentVolume < ZeroLevel /\ target > ZeroLevel
                  /\ fadeInDuration = 0
               \/ /\ currentVolume > ZeroLevel /\ target < ZeroLevel
                  /\ fadeOutDuration = 0 ) =>
              /\ ~isFading'
              /\ volumeHistory' = Pushed(target)]_vars

\* C30 witness: with the fade-in slider at 0, a call with target 0 and then
\* one with target 0.5 leave both values in the history and no fade active.
C30_Witness ==
    /\ fadeInDuration = 0
    /\ tripCalls = 2
    /\ ~isFading
    /\ volumeHistory = <<0, Unit \div 2>>


----------------------------------------------------------------------------
(* Claims about a fade that is redirected or ended.                        *)

\* The step is a call smoothSetAudioVolume(target) made dt ms after the
\* last one while a fade was active.
FadingCall(target, dt) ==
    /\ isFading
    /\ tripCalls' = tripCalls + 1
    /\ World' = smoothSetAudioVolume([World EXCEPT !.now = @ + dt], target)

\* C31: a call made while a fade is active leaves fadeStartTime,
\* fadeStartVolume and the fade direction as they were, whatever its target;
\* the endpoint becomes the call's target when the two differ by more than
\* 0.02 and is left alone otherwise.
C31_RedirectKeepsStart ==
    [][\A target \in VolumeInputs, dt \in TripSteps :
          FadingCall(target, dt) =>
              /\ fadeStartTime' = fadeStartTime
              /\ fadeStartVolume' = fadeStartVolume
              /\ currentFadeDirection' = currentFadeDirection
              /\ fadeTargetVolume' =
                    IF Abs(fadeTargetVolume - Clamped(target)) > Unit \div 50
                    THEN Clamped(target) ELSE fadeTargetVolume]_vars

\* C31 witness: a fade-in from 0 that started at 20 ms is still active,
\* still a fade-in, 200 ms or more later, and its endpoint is now 0.
C31_Witness ==
    /\ isFading
    /\ currentFadeDirection = "in"
    /\ fadeStartVolume = 0
    /\ fadeStartTime = 20
    /\ fadeTargetVolume = 0
    /\ now >= 220

\* The duration of the active fade's direction, in ms.
ActiveFadeDuration ==
    IF currentFadeDirection = "in" THEN fadeInDuration ELSE fadeOutDuration

\* One of the conditions that end a fade holds for a call with target
\* `target` made dt ms from now: the duration has elapsed, the volume is
\* within 0.01 of the target, the volume has passed the target coming from
\* the start volume, or the volume is within 0.05 of a target that is within
\* 0.02 of the fade's endpoint.
FadeEnds(target, dt) ==
    LET clamped == Clamped(target)
    IN  \/ now + dt - fadeStartTime >= ActiveFadeDuration
        \/ Abs(currentVolume - clamped) < Unit \div 100
        \/ fadeStartVolume < clamped /\ currentVolume > clamped
        \/ fadeStartVolume > clamped /\ currentVolume < clamped
        \/ /\ Abs(currentVolume - clamped) < Unit \div 20
           /\ Abs(fadeTargetVolume - clamped) <= Unit \div 50

\* C32: a call made while a fade is active for which the duration of the
\* fade's direction has elapsed, or another of the ending conditions holds,
\* leaves no fade active and pushes its own target on the history.
C32_FadeEndsAtCallTarget ==
    [][\A target \in VolumeInputs, dt \in TripSteps :
          (FadingCall(target, dt) /\ FadeEnds(target, dt)) =>
              /\ ~isFading'
              /\ volumeHistory' = Pushed(Clamped(target))]_vars

\* C32 witness: a fade-out towards 0 was ended 200 ms after its start by a
\* call with target 0.5, which is the value pushed.
C32_Witness ==
    /\ ~isFading
    /\ currentFadeDirection = "out"
    /\ now = fadeStartTime + 200
    /\ Len(volumeHistory) = 2
    /\ volumeHistory[2] = Unit \div 2
    /\ volumeHistory[1] # Unit \div 2

\* C33: a call made while a fade is active whose target lies across 0.01
\* from the volume, against the direction of the active fade, starts a new
\* fade: start time now, start volume the current volume, direction turned.
C33_OppositeCrossingRestarts ==
    [][\A target \in VolumeInputs, dt \in TripSteps :
          ( /\ FadingCall(target, dt)
            /\ \/ /\ currentFadeDirection = "in"
                  /\ IsFadingToZero(currentVolume, Clamped(target))
               \/ /\ currentFadeDirection = "out"
                  /\ IsFadingFromZero(currentVolume, Clamped(target)) ) =>
              /\ fadeStartTime' = now + dt
              /\ fadeStartVolume' = currentVolume
              /\ currentFadeDirection' # currentFadeDirection]_vars

----------------------------------------------------------------------------
(* Claims about what the motion-driven path emits.                          *)

\* C34: on the motion-driven MP3 path, the volume left in force by the
\* processing of a motion sample is the arithmetic mean of the volume
\* history computed while processing it; no raw value is emitted.
C34_OnlyMeansEmitted ==
    [][Mp3Sample => currentVolume' = MeanOf(volumeHistory')]_vars

----------------------------------------------------------------------------
(* Claims about the sequencer's reads of the note list.                     *)

\* The index the loop that wakes up reads with: one past the index before
\* the sleep ended, or 0 when that is past the last note.
NextIndex == IF currentNoteIndex + 1 >= Len(midiNotes) THEN 0 ELSE currentNoteIndex + 1

\* C35: in both sequencer loops the index of every read of the note list is
\* within 0 .. midiNotes.length - 1 at the moment of the read, and a loop
\* that wakes up reads with the next index, which is 0 after the last note,
\* also when the list was replaced while the loop was asleep.
C35_ReadIndexInRange ==
    /\ [](\A i \in 1..Len(notesRead) :
              notesRead[i].index >= 0 /\ notesRead[i].index < notesRead[i].length)
    /\ [][(Len(notesRead') > Len(notesRead) /\ notesRead'[Len(notesRead')].resumed)
              => notesRead'[Len(notesRead')].index = NextIndex]_vars

\* C35 witness: a loop read a note of a longer list, the list was replaced
\* by a list of one note while the loop was asleep, and the loop woke up
\* and read that note with index 0.
C35_Witness ==
    \E i \in 1..(Len(notesRead) - 1) :
        /\ notesRead[i].length > 1
        /\ notesRead[i + 1].resumed
        /\ notesRead[i + 1].length = 1
        /\ notesRead[i + 1].index = 0

----------------------------------------------------------------------------
(* Claims about the playback controls.                                     *)

\* C36: isImuPlaying and isTestPlaying are never both true, whatever the
\* interleaving of the two playback buttons, the restart button and its
\* countdown, the Bluetooth subscription and the end of the song.
C36_PlaybackModesExclusive == ~(isImuPlaying /\ isTestPlaying)

\* C38: the idle mode of the Arduino is never on while isImuPlaying or
\* isTestPlaying is true: no timer and no resumed await enters the idle mode
\* while a playback started before is still on.
C38_NoIdleWhilePlaying == idleMode => ~(isImuPlaying \/ isTestPlaying)

----------------------------------------------------------------------------
(* Claims about overlapping loads of MIDI files.                           *)

\* The invocation p of parseMidiFile is the only one still suspended, and
\* an invocation requested after it has run to its end: midiNotes holds
\* what the most recently requested file gave.
OvertakenParse(p) == parses = {p} /\ p.id < parseCount

\* C37: when two invocations of parseMidiFile overlap, the note list left
\* after both have run to their end is the one of the most recently
\* requested file: an invocation that was overtaken by a later request
\* leaves midiNotes as the later one set it.
C37_LatestRequestWins ==
    [][\A p \in parses : (OvertakenParse(p) /\ parses' = {}) => midiNotes' = midiNotes]_vars

----------------------------------------------------------------------------
(* Claims about the preview.                                               *)

\* The volume, the fade state, the volume history, the play/pause state of
\* the element and the sequencer are as before.
PlaybackUntouched ==
    UNCHANGED <<currentVolume, smoothedVolume, volumeHistory, isFading, fadeStartTime,
                fadeStartVolume, fadeTargetVolume, currentFadeDirection, audioPaused,
                isPlayingMidiSequence, sleepers, voices, currentMidiSource>>

\* C39: while isTestPlaying is true or isImuPlaying is false, the processing
\* of a motion sample leaves the volume, the fade state, the volume history
\* and the play/pause state as they are and starts no motion-gated MIDI
\* loop.
C39_PreviewIgnoresMotion ==
    [][((isTestPlaying \/ ~isImuPlaying) /\ ProcessData) => PlaybackUntouched]_vars

----------------------------------------------------------------------------
(* Claims about the termination of parseMidiBytes.                          *)

\* The event loop is about to run an iteration.
Reading == parsePc = "events" /\ InEventLoop(StepBuffer(file), parseCursor)

\* The bytes between the start of the track being read and its end; none
\* when the declared end is before the start.
TrackBytesOf == Max(0, parseCursor.trackEnd - (parseCursor.offset + 8))

\* The iterations of the event loop that ran to their end: all of them, or
\* all but the one that left the loop with a break.
Completed ==
    IF parseCursor.ctx.running
    THEN parseCursor.ctx.loopCount
    ELSE parseCursor.ctx.loopCount - 1

\* What readVariableLength returns for the delta time of the next iteration.
DeltaTimeRead == readVariableLength(StepBuffer(file), parseCursor.ctx.offset)

\* What readVariableLength returns for the length of the meta or SysEx
\* event of the next iteration, when the iteration reads one (lines 2817
\* and 2829).
LengthReads ==
    LET buf == StepBuffer(file)
        ctx == parseCursor.ctx
        afterDelta == ctx.offset + DeltaTimeRead.bytesRead
        byte == At(buf, afterDelta)
        isRunning == byte < 128
        status == IF isRunning THEN ctx.runningStatus ELSE byte
        afterStatus == IF isRunning THEN afterDelta ELSE afterDelta + 1
        dispatched ==
            /\ ctx.loopCount + 1 <= maxLoops
            /\ DeltaTimeRead.bytesRead # 0
            /\ afterDelta < Len(buf) /\ afterDelta < parseCursor.trackEnd
            /\ ~(isRunning /\ status = 0)
            /\ afterStatus < Len(buf) /\ afterStatus < parseCursor.trackEnd
    IN  IF ~dispatched THEN {}
        ELSE IF status = 255 THEN {readVariableLength(buf, afterStatus + 1)}
        ELSE IF status \in {240, 247} THEN {readVariableLength(buf, afterStatus)}
        ELSE {}

\* How far parseMidiBytes has come: the tracks it has left behind, and
\* within a track the iterations of the event loop it has entered.
Progress ==
    CASE parsePc = "idle" -> -2
      [] parsePc = "input" -> -1
      [] parsePc = "tracks" -> parseCursor.trackNum * (maxLoops + 3)
      [] parsePc = "events" ->
            parseCursor.trackNum * (maxLoops + 3) + 1 + parseCursor.ctx.loopCount
      [] OTHER -> (MaxTrackCount + 1) * (maxLoops + 3)

\* C40 as stated: every variable-length read of the event loop consumes
\* between 1 and 4 bytes.
C40_EveryReadConsumes ==
    Reading => \A read \in {DeltaTimeRead} \cup LengthReads : read.bytesRead \in 1..4

\* C40: parseMidiBytes returns on every buffer: every step of it takes it
\* further, and no call comes further than the 1000 tracks of 100001
\* iterations allow.  Every iteration of the
\* event loop that does not break out of it leaves the offset larger than
\* it found it; the delta-time read of an iteration consumes 1 to 4 bytes
\* of the buffer, and the read of a meta or SysEx length 0 to 4; the
\* iterations of a track that run to their end are at most min(track
\* bytes, 100000), and the track loop is entered at most trackCount <= 1000
\* times.
C40_ParseTerminates ==
    /\ [][(ReadEvent /\ parseCursor'.ctx.running)
              => parseCursor'.ctx.offset > parseCursor.ctx.offset]_vars
    /\ [](Reading =>
              /\ DeltaTimeRead.bytesRead \in 1..4
              /\ parseCursor.ctx.offset + DeltaTimeRead.bytesRead <= Len(StepBuffer(file))
              /\ \A read \in LengthReads : read.bytesRead \in 0..4)
    /\ [](parsePc = "events" =>
              /\ Completed <= Min(TrackBytesOf, maxLoops)
              /\ parseCursor.trackNum < readInt16(StepBuffer(file), 10))
    /\ [](parsePc = "tracks" =>
              /\ parseCursor.trackNum <= readInt16(StepBuffer(file), 10)
              /\ readInt16(StepBuffer(file), 10) <= MaxTrackCount)
    /\ [][StepNext => Progress' > Progress]_vars
    /\ [](Progress <= (MaxTrackCount + 1) * (maxLoops + 3))

\* C40 witness: parseMidiBytes has returned on a buffer whose only track
\* ends with the type byte of a meta event: the read of the event's length
\* found the buffer at its end.
C40_Witness ==
    /\ parsePc = "done"
    /\ file = DamagedFileName
    /\ parseCursor.trackNum = 1
    /\ parseCursor.trackEnd = Len(bytes)
    /\ parseCursor.ctx.offset = Len(bytes)
    /\ parseCursor.ctx.loopCount >= 2
    /\ At(bytes, Len(bytes) - 2) = 255
====
